---- MODULE Spec2Model ----
(***************************************************************************)
(* Address-change automation: the case state machine, its HITL-gated       *)
(* pipeline (ingest, verify identity, quality, business rules, registry    *)
(* update, certificate), the human-resolution protocol and the pattern     *)
(* memory, modelled from automation/tools/mcp_server.py, automation/db.py, *)
(* automation/api.py and automation/crew.py.                               *)
(*                                                                         *)
(* Strings are sequences of one-character strings, so that the regular     *)
(* expressions, str.title(), the tokenizer and difflib's ratio are         *)
(* computed character by character as the code computes them.              *)
(***************************************************************************)
EXTENDS Integers, Sequences, FiniteSets, TLC

\* ------------------------------------------------------------------------
\* Characters and Python string predicates
\* ------------------------------------------------------------------------

LowerLetters ==
    <<"a","b","c","d","e","f","g","h","i","j","k","l","m",
      "n","o","p","q","r","s","t","u","v","w","x","y","z">>

UpperLetters ==
    <<"A","B","C","D","E","F","G","H","I","J","K","L","M",
      "N","O","P","Q","R","S","T","U","V","W","X","Y","Z">>

DigitChars == {"0","1","2","3","4","5","6","7","8","9"}

\* the set of elements of a sequence
Range(s) == { s[i] : i \in DOMAIN s }

\* characters outside ASCII are named by their code point
ESZETT == "U+00DF"
A_TILDE == "U+00C3"
Y_DIAERESIS == "U+0178"

\* U+00DF is a lowercase letter without a single-character uppercase form;
\* U+00C3 and U+0178 are uppercase letters, lower-cased to U+00E3 and U+00FF
IsLowerChar(c) == c \in Range(LowerLetters) \cup {ESZETT, "U+00E3", "U+00FF"}

IsUpperChar(c) == c \in Range(UpperLetters) \cup {A_TILDE, Y_DIAERESIS}

IsCasedChar(c) == IsLowerChar(c) \/ IsUpperChar(c)

IsDigitChar(c) == c \in DigitChars

\* the class \w of Python's re on str patterns
IsWordChar(c) == IsCasedChar(c) \/ IsDigitChar(c) \/ c = "_"

IndexIn(c, s) == CHOOSE i \in DOMAIN s : s[i] = c

\* str.lower() on one character
LowerChar(c) ==
    IF c \in Range(UpperLetters) THEN LowerLetters[IndexIn(c, UpperLetters)]
    ELSE IF c = A_TILDE THEN "U+00E3"
    ELSE IF c = Y_DIAERESIS THEN "U+00FF"
    ELSE c

\* str.upper() on one character (the addresses of the model never put
\* U+00DF where Python would upper-case it, so its two-character upper form
\* is not needed)
UpperChar(c) ==
    IF c \in Range(LowerLetters) THEN UpperLetters[IndexIn(c, LowerLetters)]
    ELSE IF c = "U+00E3" THEN A_TILDE
    ELSE IF c = "U+00FF" THEN Y_DIAERESIS
    ELSE c

\* str.lower()
Lower(s) == [i \in DOMAIN s |-> LowerChar(s[i])]

\* str.isupper(): at least one cased character and no lowercase one
IsUpperStr(s) ==
    /\ \E i \in DOMAIN s : IsCasedChar(s[i])
    /\ \A i \in DOMAIN s : ~IsLowerChar(s[i])

\* str.isdigit()
IsDigitStr(s) == s # <<>> /\ \A i \in DOMAIN s : IsDigitChar(s[i])

\* str.title(): a cased character is upper-cased when the character before
\* it is not cased, and lower-cased otherwise
Title(s) ==
    [i \in DOMAIN s |->
        IF ~IsCasedChar(s[i]) THEN s[i]
        ELSE IF i > 1 /\ IsCasedChar(s[i-1]) THEN LowerChar(s[i])
        ELSE UpperChar(s[i])]

IsSpaceChar(c) == c = " "

RECURSIVE LStrip(_)
LStrip(s) == IF s # <<>> /\ IsSpaceChar(Head(s)) THEN LStrip(Tail(s)) ELSE s

RECURSIVE RStrip(_)
RStrip(s) ==
    IF s # <<>> /\ IsSpaceChar(s[Len(s)]) THEN RStrip(SubSeq(s, 1, Len(s) - 1)) ELSE s

\* str.strip()
Strip(s) == RStrip(LStrip(s))

\* s.endswith(suffix)
EndsWith(s, suffix) ==
    /\ Len(s) >= Len(suffix)
    /\ SubSeq(s, Len(s) - Len(suffix) + 1, Len(s)) = suffix

\* needle in s
Contains(s, needle) ==
    \E i \in 1..(Len(s) - Len(needle) + 1) : SubSeq(s, i, i + Len(needle) - 1) = needle

\* a maximal run of \w characters ends at position j
WordEndsAt(s, j) ==
    /\ j \in DOMAIN s
    /\ IsWordChar(s[j])
    /\ (j = Len(s) \/ ~IsWordChar(s[j+1]))

\* ------------------------------------------------------------------------
\* Regular-expression helpers (Python re, flags=re.IGNORECASE)
\* ------------------------------------------------------------------------

WordAt(s, i) == i \in DOMAIN s /\ IsWordChar(s[i])

\* \b holds between positions i and i+1 (0 = before the first character)
IsBoundary(s, i) == WordAt(s, i) # WordAt(s, i + 1)

\* the literal lit matches s at position i, ignoring case
MatchesAt(s, lit, i) ==
    /\ i >= 1
    /\ i + Len(lit) - 1 <= Len(s)
    /\ Lower(SubSeq(s, i, i + Len(lit) - 1)) = Lower(lit)

\* r'\b' + re.escape(original) + r'\b' matches s at position i
BoundedMatchAt(s, original, i) ==
    /\ MatchesAt(s, original, i)
    /\ IsBoundary(s, i - 1)
    /\ IsBoundary(s, i + Len(original) - 1)

\* re.search(r'\b' + re.escape(original) + r'\b', s, re.IGNORECASE)
BoundedSearch(s, original) == \E i \in DOMAIN s : BoundedMatchAt(s, original, i)

\* re.sub of the same pattern: leftmost non-overlapping matches, scanned
\* from position i on
RECURSIVE BoundedSubFrom(_, _, _, _)
BoundedSubFrom(s, original, replacement, i) ==
    IF i > Len(s) THEN <<>>
    ELSE IF original # <<>> /\ BoundedMatchAt(s, original, i)
         THEN replacement \o BoundedSubFrom(s, original, replacement, i + Len(original))
         ELSE <<s[i]>> \o BoundedSubFrom(s, original, replacement, i + 1)

BoundedSub(s, original, replacement) == BoundedSubFrom(s, original, replacement, 1)

\* ------------------------------------------------------------------------
\* Quality classifier (assess_quality, step 2 and 3)
\* ------------------------------------------------------------------------

complete_street_patterns ==
    { <<"s","t","r","a",ESZETT,"e">>, <<"s","t","r","a","s","s","e">>,
      <<"w","e","g">>, <<"p","l","a","t","z">>, <<"a","l","l","e","e">>,
      <<"r","i","n","g">>, <<"d","a","m","m">>, <<"u","f","e","r">>,
      <<"g","a","s","s","e">>, <<"s","t","e","i","g">>, <<"p","f","a","d">> }

\* Variant of has_complete_street: the list cut down to its first two
\* entries, the two spellings of "strasse"
has_complete_street_strasse_only(s) ==
    \E j \in DOMAIN s :
        \E suf \in { <<"s","t","r","a",ESZETT,"e">>, <<"s","t","r","a","s","s","e">> } :
            /\ WordEndsAt(s, j)
            /\ MatchesAt(s, suf, j - Len(suf) + 1)
            /\ WordAt(s, j - Len(suf))

\* r'\b\w+(' + '|'.join(complete_street_patterns) + r')\b': a suffix that
\* ends a word and has at least one word character before it (\w+ then
\* reaches back to a word boundary)
has_complete_street(s) ==
    \E j \in DOMAIN s : \E suf \in complete_street_patterns :
        /\ WordEndsAt(s, j)
        /\ MatchesAt(s, suf, j - Len(suf) + 1)
        /\ WordAt(s, j - Len(suf))

\* r'\b\w+str\b(?!a<U+00DF>e|asse)': "str" that ends a word and has at
\* least one word character before it, not followed by "a<U+00DF>e" or "asse"
has_incomplete_street(s) ==
    \E j \in DOMAIN s :
        /\ WordEndsAt(s, j)
        /\ MatchesAt(s, <<"s","t","r">>, j - 2)
        /\ WordAt(s, j - 3)
        /\ ~MatchesAt(s, <<"a",ESZETT,"e">>, j + 1)
        /\ ~MatchesAt(s, <<"a","s","s","e">>, j + 1)

\* confidences are kept in hundredths: 0.60 is 60
ConfIncomplete == 60
ConfComplete == 90
ConfUnclear == 75
ConfBoost == 10
ConfBoostCap == 85
BoostBelow == 90
HitlThreshold == 80

\* Variant of BaseConfidence: the complete-street test taken first
BaseConfidenceCompleteFirst(s) ==
    IF has_complete_street(s) THEN ConfComplete
    ELSE IF has_incomplete_street(s) THEN ConfIncomplete
    ELSE ConfUnclear

\* the branch of the classifier and its confidence
BaseConfidence(s) ==
    IF has_incomplete_street(s) THEN ConfIncomplete
    ELSE IF has_complete_street(s) THEN ConfComplete
    ELSE ConfUnclear

Min(a, b) == IF a < b THEN a ELSE b

\* Variants of BoostedConfidence: no boost at all, and the boost applied
\* whatever the base confidence is
BoostedConfidenceNever(base, corrections_applied) == base

BoostedConfidenceAlways(base, corrections_applied) ==
    IF corrections_applied # <<>>
    THEN Min(ConfBoostCap, base + ConfBoost)
    ELSE base

\* "if corrections_applied and confidence < 0.90: min(0.85, confidence + 0.10)"
BoostedConfidence(base, corrections_applied) ==
    IF corrections_applied # <<>> /\ base < BoostBelow
    THEN Min(ConfBoostCap, base + ConfBoost)
    ELSE base

\* ------------------------------------------------------------------------
\* Pattern memory (table case_resolutions): a sequence of rows in insertion
\* order, each [original_pattern, corrected_value, resolution_type, frequency]
\* ------------------------------------------------------------------------

PatternRow(o, c, t, f) ==
    [original_pattern |-> o, corrected_value |-> c, resolution_type |-> t, frequency |-> f]

\* Variant of store_resolution: the existing row keeps its corrected value
\* (an INSERT ... ON CONFLICT that only counts)
store_resolution_keep_value(table, o, c, t) ==
    IF \E i \in DOMAIN table :
            table[i].original_pattern = o /\ table[i].resolution_type = t
    THEN [i \in DOMAIN table |->
             IF table[i].original_pattern = o /\ table[i].resolution_type = t
             THEN [table[i] EXCEPT !.frequency = @ + 1]
             ELSE table[i]]
    ELSE Append(table, PatternRow(o, c, t, 1))

\* store_resolution: update the row found for (original_pattern,
\* resolution_type), or insert a new row
store_resolution(table, o, c, t) ==
    IF \E i \in DOMAIN table :
            table[i].original_pattern = o /\ table[i].resolution_type = t
    THEN LET i == CHOOSE k \in DOMAIN table :
                    /\ table[k].original_pattern = o /\ table[k].resolution_type = t
                    /\ \A m \in DOMAIN table :
                           (table[m].original_pattern = o /\ table[m].resolution_type = t)
                               => k <= m
         IN  [table EXCEPT ![i] = PatternRow(o, c, t, table[i].frequency + 1)]
    ELSE Append(table, PatternRow(o, c, t, 1))

\* ORDER BY LENGTH(original_pattern) DESC, frequency DESC: row a may come
\* before row b
OrderedBefore(a, b) ==
    \/ Len(a.original_pattern) > Len(b.original_pattern)
    \/ /\ Len(a.original_pattern) = Len(b.original_pattern)
       /\ a.frequency >= b.frequency

\* every result order the SELECT may return: the permutations of the rows
\* that respect the ORDER BY (rows that tie come in any order)
PatternOrders(table) ==
    { ord \in [DOMAIN table -> DOMAIN table] :
        /\ \A i, j \in DOMAIN table : i # j => ord[i] # ord[j]
        /\ \A i, j \in DOMAIN table : i < j => OrderedBefore(table[ord[i]], table[ord[j]]) }

\* the loop of apply_learned_corrections over the fetched rows, from row k
RECURSIVE ApplyPatterns(_, _, _, _)
ApplyPatterns(rows, k, corrected, corrections_applied) ==
    IF k > Len(rows) THEN <<corrected, corrections_applied>>
    ELSE LET original == rows[k].original_pattern
             replacement == rows[k].corrected_value
         IN  IF BoundedSearch(corrected, original)
             THEN ApplyPatterns(rows, k + 1,
                      BoundedSub(corrected, original, replacement),
                      Append(corrections_applied,
                             [original |-> original, corrected |-> replacement,
                              type |-> rows[k].resolution_type]))
             ELSE ApplyPatterns(rows, k + 1, corrected, corrections_applied)

\* apply_learned_corrections: the set of results <<corrected address,
\* corrections applied>>, one per order the SELECT may return
apply_learned_corrections(table, address) ==
    { ApplyPatterns([i \in DOMAIN table |-> table[ord[i]]], 1, address, <<>>) :
        ord \in PatternOrders(table) }

\* ------------------------------------------------------------------------
\* Diff-based learning (resolve_hitl): tokenizer, difflib ratio, pattern type
\* ------------------------------------------------------------------------

\* the end of the word run that starts at position i
RECURSIVE WordEnd(_, _)
WordEnd(s, i) == IF WordAt(s, i + 1) THEN WordEnd(s, i + 1) ELSE i

\* re.findall(r'[\w]+', address): the maximal word runs, left to right
RECURSIVE TokensFrom(_, _)
TokensFrom(s, i) ==
    IF i > Len(s) THEN <<>>
    ELSE IF ~IsWordChar(s[i]) THEN TokensFrom(s, i + 1)
    ELSE <<SubSeq(s, i, WordEnd(s, i))>> \o TokensFrom(s, WordEnd(s, i) + 1)

tokenize_address(address) == TokensFrom(address, 1)

\* SequenceMatcher.find_longest_match without junk: the longest block common
\* to a and b, the one starting earliest in a and then earliest in b, as
\* <<i, j, k>> (k = 0 when nothing matches)
find_longest_match(a, b) ==
    LET Blocks == { <<i, j, k>> \in (DOMAIN a) \X (DOMAIN b) \X (1..Min(Len(a), Len(b))) :
                        /\ i + k - 1 <= Len(a)
                        /\ j + k - 1 <= Len(b)
                        /\ SubSeq(a, i, i + k - 1) = SubSeq(b, j, j + k - 1) }
    IN  IF Blocks = {} THEN <<1, 1, 0>>
        ELSE CHOOSE m \in Blocks :
                \A n \in Blocks :
                    \/ m[3] > n[3]
                    \/ m[3] = n[3] /\ m[1] < n[1]
                    \/ m[3] = n[3] /\ m[1] = n[1] /\ m[2] <= n[2]

\* the number of matched characters in get_matching_blocks: the longest
\* match, then recursively the pieces to its left and to its right
RECURSIVE MatchCount(_, _)
MatchCount(a, b) ==
    IF a = <<>> \/ b = <<>> THEN 0
    ELSE LET m == find_longest_match(a, b)
         IN  IF m[3] = 0 THEN 0
             ELSE m[3]
                  + MatchCount(SubSeq(a, 1, m[1] - 1), SubSeq(b, 1, m[2] - 1))
                  + MatchCount(SubSeq(a, m[1] + m[3], Len(a)), SubSeq(b, m[2] + m[3], Len(b)))

\* similarity(a, b) = SequenceMatcher(None, a.lower(), b.lower()).ratio()
\* = 2*M/T, kept exact as the fraction <<2*M, T>> (ratio() returns 1.0
\* when T = 0)
similarity(a, b) ==
    IF Len(a) + Len(b) = 0 THEN <<1, 1>>
    ELSE <<2 * MatchCount(Lower(a), Lower(b)), Len(a) + Len(b)>>

\* x > y on fractions with positive denominators
FracGT(x, y) == x[1] * y[2] > y[1] * x[2]

\* the literal as it stands in api.py: "stra", U+00C3, U+0178, "e" (a
\* mis-decoded U+00DF); it is compared with corrected.lower()
StrasseLiteral == <<"s","t","r","a",A_TILDE,Y_DIAERESIS,"e">>

determine_pattern_type(original, corrected) ==
    IF IsUpperStr(original) /\ Len(original) <= 3 /\ Len(corrected) > 3
    THEN "city_abbreviation"
    ELSE IF /\ EndsWith(Lower(original), <<"s","t","r">>)
            /\ \/ Contains(Lower(corrected), StrasseLiteral)
               \/ Contains(Lower(corrected), <<"s","t","r","a","s","s","e">>)
    THEN "street_abbreviation"
    ELSE IF IsDigitStr(original) \/ IsDigitStr(corrected)
    THEN "number_correction"
    ELSE "word_correction"

\* the inner loop over corrected_tokens from index i: <<index, similarity>>
\* of the best unused token so far (index 0 = None)
RECURSIVE BestMatch(_, _, _, _, _)
BestMatch(orig_token, corrected_tokens, used_corrected, i, best) ==
    IF i > Len(corrected_tokens) THEN best
    ELSE IF i \in used_corrected
         THEN BestMatch(orig_token, corrected_tokens, used_corrected, i + 1, best)
         ELSE LET sim == similarity(orig_token, corrected_tokens[i])
              IN  IF FracGT(sim, best[2])
                  THEN BestMatch(orig_token, corrected_tokens, used_corrected, i + 1, <<i, sim>>)
                  ELSE BestMatch(orig_token, corrected_tokens, used_corrected, i + 1, best)

\* whether the pair found for orig_token is stored
IsLearnable(orig_token, corr_token, best_similarity) ==
    LET is_abbreviation == Len(orig_token) < Len(corr_token) /\ FracGT(best_similarity, <<3, 10>>)
        is_similar == FracGT(best_similarity, <<1, 2>>)
        is_short_abbreviation ==
            Len(orig_token) <= 3 /\ Len(corr_token) >= 5 /\ IsUpperStr(orig_token)
        pattern_type == determine_pattern_type(orig_token, corr_token)
    IN  /\ Lower(orig_token) # Lower(corr_token)
        /\ is_abbreviation \/ is_similar \/ is_short_abbreviation
        /\ pattern_type # "number_correction"
        /\ Len(orig_token) >= 2

\* the outer loop over original_tokens from index k: the sequence of
\* store_resolution calls <<orig_token, corr_token, pattern_type>>
RECURSIVE LearnLoop(_, _, _, _)
LearnLoop(original_tokens, corrected_tokens, k, used_corrected) ==
    IF k > Len(original_tokens) THEN <<>>
    ELSE LET orig_token == original_tokens[k]
             best == BestMatch(orig_token, corrected_tokens, used_corrected, 1, <<0, <<0, 1>>>>)
         IN  IF best[1] = 0
             THEN LearnLoop(original_tokens, corrected_tokens, k + 1, used_corrected)
             ELSE LET corr_token == corrected_tokens[best[1]]
                      rest == LearnLoop(original_tokens, corrected_tokens, k + 1,
                                        used_corrected \cup {best[1]})
                  IN  IF IsLearnable(orig_token, corr_token, best[2])
                      THEN <<<<orig_token, corr_token,
                               determine_pattern_type(orig_token, corr_token)>>>> \o rest
                      ELSE rest

\* the patterns learned from one human correction, in the order stored
patterns_learned(original_address, corrected_address) ==
    LearnLoop(tokenize_address(original_address), tokenize_address(corrected_address), 1, {})

\* the pattern table after the store_resolution calls of one resolution
RECURSIVE StoreAll(_, _)
StoreAll(table, learned) ==
    IF learned = <<>> THEN table
    ELSE StoreAll(store_resolution(table, learned[1][1], learned[1][2], learned[1][3]),
                  Tail(learned))

\* ------------------------------------------------------------------------
\* Inputs of the model
\* ------------------------------------------------------------------------

\* "Musterstr 12a, 67264 KL"
AddrMusterstr ==
    <<"M","u","s","t","e","r","s","t","r"," ","1","2","a",","," ","6","7",
      "2","6","4"," ","K","L">>

\* "Am Markt 5, 67663 KL"
AddrAmMarkt ==
    <<"A","m"," ","M","a","r","k","t"," ","5",","," ","6","7","6","6","3",
      " ","K","L">>

\* "Hauptweg 5, 67663 KL"
AddrHauptweg ==
    <<"H","a","u","p","t","w","e","g"," ","5",","," ","6","7","6","6","3",
      " ","K","L">>

\* "Musterstra<U+00DF>e 12a, 67663 Kaiserslautern"
AddrMusterstrasse ==
    <<"M","u","s","t","e","r","s","t","r","a",ESZETT,"e"," ","1","2","a",
      ","," ","6","7","6","6","3"," ","K","a","i","s","e","r","s","l","a",
      "u","t","e","r","n">>

\* "Musterstr 12a, 67663 Kaiserslautern"
AddrCityFixed ==
    <<"M","u","s","t","e","r","s","t","r"," ","1","2","a",","," ","6","7",
      "6","6","3"," ","K","a","i","s","e","r","s","l","a","u","t","e","r",
      "n">>

\* new_address_raw of the submitted cases
RawAddresses == {AddrMusterstr, AddrHauptweg}

\* corrected_address of the human resolutions
CorrectedAddresses == {AddrMusterstrasse, AddrCityFixed}

\* move_in_date_raw: whether datetime.fromisoformat accepts it, and
\* (move_date - now).days when it does
MoveInDate(iso, delta_days) == [iso |-> iso, delta_days |-> delta_days]

MoveInDates == {MoveInDate(TRUE, 10), MoveInDate(TRUE, 400), MoveInDate(FALSE, 0)}

\* "Max Muster"
NameMax == <<"M","a","x"," ","M","u","s","t","e","r">>

CitizenNames == {NameMax}

\* patterns_learned on the addresses of the model, computed once
LearnedFrom ==
    [original_address \in RawAddresses, corrected_address \in CorrectedAddresses |->
        patterns_learned(original_address, corrected_address)]

\* the number of cases submitted and of pipeline runs started
MaxCases == 1
MaxRuns == 3

\* ------------------------------------------------------------------------
\* State
\* ------------------------------------------------------------------------

VARIABLES
    cases,             \* table cases: the row of case id n is cases[n]
    audit_logs,        \* table audit_logs: per case id, its entries in insertion order
    case_resolutions,  \* table case_resolutions (the pattern memory)
    runs,              \* the background pipeline runs (threads), in start order
    response           \* the response of the most recent API request

vars == <<cases, audit_logs, case_resolutions, runs, response>>

\* an audit entry: the message, the value formatted into it, and the list of
\* corrections formatted into it
Entry(message, detail, data) == [message |-> message, detail |-> detail, data |-> data]

\* confidence as the f-string prints it
ConfText(c) ==
    IF c = 60 THEN "0.6" ELSE IF c = 70 THEN "0.7" ELSE IF c = 75 THEN "0.75"
    ELSE IF c = 85 THEN "0.85" ELSE "0.9"

\* Variant of add_audit_entry: the new entry put in front (newest first)
add_audit_entry_in_front(logs, case_id, entry) ==
    IF case_id \in DOMAIN logs
    THEN [logs EXCEPT ![case_id] = <<entry>> \o @]
    ELSE logs

\* add_audit_entry(case_id, message) on a value of the table
add_audit_entry(logs, case_id, entry) ==
    IF case_id \in DOMAIN logs
    THEN [logs EXCEPT ![case_id] = Append(@, entry)]
    ELSE logs

\* Variant of update_case_status: a conditional write that leaves a case
\* that is WAITING_FOR_HUMAN alone (UPDATE ... AND status <> 'WAITING_FOR_HUMAN')
update_case_status_unless_waiting(tbl, case_id, status) ==
    IF case_id \in DOMAIN tbl /\ tbl[case_id].status # "WAITING_FOR_HUMAN"
    THEN [tbl EXCEPT ![case_id].status = status]
    ELSE tbl

\* update_case_status / set_canonical_address / set_registry_exists on a
\* value of the table: an UPDATE ... WHERE case_id = %s
update_case_status(tbl, case_id, status) ==
    IF case_id \in DOMAIN tbl THEN [tbl EXCEPT ![case_id].status = status] ELSE tbl

set_canonical_address(tbl, case_id, canonical_address) ==
    IF case_id \in DOMAIN tbl
    THEN [tbl EXCEPT ![case_id].canonical_address = canonical_address]
    ELSE tbl

set_registry_exists(tbl, case_id, exists) ==
    IF case_id \in DOMAIN tbl THEN [tbl EXCEPT ![case_id].registry_exists = exists] ELSE tbl

\* the result a tool returns to the agent; fields a tool does not return
\* are "" (None), <<>> (None) or 0
NoTask == <<>>

NoRules ==
    [move_in_date |-> "", address_format_compliance |-> "", documents |-> "",
     HITL_PENDING |-> ""]

NoResult ==
    [tool |-> "", status |-> "", needs_hitl |-> FALSE, hitl_task_id |-> NoTask,
     confidence |-> 0, canonical_address |-> <<>>, rule_results |-> NoRules,
     email_status |-> ""]

\* f"HITL-{case_id}" and f"HITL-RULES-{case_id}"
HitlTaskId(case_id) == <<"HITL-", case_id>>

HitlRulesTaskId(case_id) == <<"HITL-RULES-", case_id>>

\* a pipeline run: the thread's kind, its inputs["citizen_data"], its
\* position, the status read by the gate of the step in progress, and the
\* outputs of the tasks run so far
Run(kind, case_id, new_address_raw, pc) ==
    [kind |-> kind, case_id |-> case_id, new_address_raw |-> new_address_raw,
     pc |-> pc, seen_status |-> "",
     quality |-> NoResult, rules |-> NoResult, registry |-> NoResult,
     certificate |-> NoResult]

\* a run is over when its thread has returned ("done") or has run its
\* except block ("error"); the thread's locals are gone then
Ended(run, pc) == Run(run.kind, run.case_id, <<>>, pc)

ActiveRuns == { r \in DOMAIN runs : runs[r].pc \notin {"done", "error"} }

ActiveOn(case_id) == { r \in ActiveRuns : runs[r].case_id = case_id }

Response(op, case_id, code) == [op |-> op, case_id |-> case_id, code |-> code]

Init ==
    /\ cases = <<>>
    /\ audit_logs = <<>>
    /\ case_resolutions = <<>>
    /\ runs = <<>>
    /\ response = Response("", 0, 0)

\* ------------------------------------------------------------------------
\* API handlers (api.py)
\* ------------------------------------------------------------------------

HasDigit(s) == \E i \in DOMAIN s : IsDigitChar(s[i])

\* pre_validate_case: fields_ok stands for the checks on the fields the
\* model does not carry (dob, old address, move-in date present)
pre_validate_case(citizen_name, new_address_raw, fields_ok) ==
    /\ fields_ok
    /\ new_address_raw # <<>>
    /\ Len(new_address_raw) >= 10
    /\ HasDigit(new_address_raw)
    /\ Len(citizen_name) >= 3

CaseRow(status, citizen_name, new_address_raw, move_in_date_raw) ==
    [status |-> status, citizen_name |-> citizen_name,
     new_address_raw |-> new_address_raw, move_in_date_raw |-> move_in_date_raw,
     canonical_address |-> <<>>, registry_exists |-> "NULL"]

\* POST /submit-case, after OCR and document validation: insert the case as
\* PROCESSING and start run_auto_workflow when it is clean, as
\* PENDING_REVIEW otherwise
submit_case(citizen_name, new_address_raw, move_in_date_raw, fields_ok) ==
    LET is_clean == pre_validate_case(citizen_name, new_address_raw, fields_ok)
        initial_status == IF is_clean THEN "PROCESSING" ELSE "PENDING_REVIEW"
        case_id == Len(cases) + 1
    IN  /\ Len(cases) < MaxCases
        /\ is_clean => Len(runs) < MaxRuns
        /\ cases' = Append(cases, CaseRow(initial_status, citizen_name,
                                          new_address_raw, move_in_date_raw))
        /\ audit_logs' = Append(audit_logs, <<>>)
        /\ runs' = IF is_clean
                   THEN Append(runs, Run("auto", case_id, new_address_raw, "begin"))
                   ELSE runs
        /\ response' = Response("submit_case", case_id, 200)
        /\ UNCHANGED case_resolutions

\* Variant of ApproveEntry: the run picks up at the registry step
ApproveEntryAtRegistry == "registry_gate"

\* run_workflow kicks off the whole crew: the first task is ingest_case
ApproveEntry == "ingest"

\* POST /admin/approve-case/{case_id}: 404 when the case does not exist;
\* otherwise set PROCESSING and start run_workflow on the stored raw data
approve_case(case_id) ==
    IF case_id \notin DOMAIN cases
    THEN /\ response' = Response("approve_case", case_id, 404)
         /\ UNCHANGED <<cases, audit_logs, case_resolutions, runs>>
    ELSE /\ Len(runs) < MaxRuns
         /\ cases' = [cases EXCEPT ![case_id].status = "PROCESSING"]
         /\ runs' = Append(runs, Run("approve", case_id,
                                     cases[case_id].new_address_raw, ApproveEntry))
         /\ response' = Response("approve_case", case_id, 200)
         /\ UNCHANGED <<audit_logs, case_resolutions>>

\* the audit entries of the learning block of resolve_hitl
LearningEntries(learned) ==
    <<Entry("Comparing addresses", "", <<>>)>>
    \o (IF learned # <<>>
        THEN [i \in DOMAIN learned |->
                 Entry("Memory learned", learned[i][3],
                       <<[original |-> learned[i][1], corrected |-> learned[i][2],
                          type |-> learned[i][3]]>>)]
             \o <<Entry("Total patterns learned", "", <<>>)>>
        ELSE <<Entry("No new patterns to learn (addresses were similar)", "", <<>>)>>)

\* Variant of ResolveRejected: no status check
ResolveRejectedNever(status) == FALSE

\* "if row[0] != 'WAITING_FOR_HUMAN': raise HTTPException(status_code=400, ...)"
ResolveRejected(status) == status # "WAITING_FOR_HUMAN"

\* Variant of ResolvedStatus: the case goes to RULES_PASSED
ResolvedStatusRulesPassed == "RULES_PASSED"

\* "update_case_status(case_id, 'QUALITY_OK')" of resolve_hitl
ResolvedStatus == "QUALITY_OK"

\* Variant of ResumeEntry: the continuation starts at the business rules
ResumeEntryAtRules == "rules_gate"

\* resume_workflow kicks off the whole crew: its first task is ingest_task
ResumeEntry == "ingest"

\* POST /admin/resolve-hitl/{case_id}: 404 when the case does not exist, 400
\* when it is not WAITING_FOR_HUMAN; otherwise store the corrected address,
\* set QUALITY_OK, write the audit entry, learn the patterns and start
\* resume_workflow with the corrected address as new_address_raw
resolve_hitl(case_id, corrected_address) ==
    IF case_id \notin DOMAIN cases
    THEN /\ response' = Response("resolve_hitl", case_id, 404)
         /\ UNCHANGED <<cases, audit_logs, case_resolutions, runs>>
    ELSE IF ResolveRejected(cases[case_id].status)
    THEN /\ response' = Response("resolve_hitl", case_id, 400)
         /\ UNCHANGED <<cases, audit_logs, case_resolutions, runs>>
    ELSE LET original_address == cases[case_id].new_address_raw
             learned == LearnedFrom[original_address, corrected_address]
             resolved == <<Entry("HITL resolved: Admin corrected address",
                                 corrected_address, <<>>)>>
         IN  /\ Len(runs) < MaxRuns
             /\ cases' = update_case_status(
                             set_canonical_address(cases, case_id, corrected_address),
                             case_id, ResolvedStatus)
             /\ audit_logs' = [audit_logs EXCEPT ![case_id] =
                                   @ \o resolved \o LearningEntries(learned)]
             /\ case_resolutions' = StoreAll(case_resolutions, learned)
             /\ runs' = Append(runs, Run("resume", case_id, corrected_address,
                                         ResumeEntry))
             /\ response' = Response("resolve_hitl", case_id, 200)

\* ------------------------------------------------------------------------
\* Pipeline steps (mcp_server.py), run by the tasks of the crew in order
\* ------------------------------------------------------------------------

CaseOf(r) == runs[r].case_id

At(r, pc) == r \in DOMAIN runs /\ runs[r].pc = pc

\* run_auto_workflow, before kickoff
auto_begin(r) ==
    /\ At(r, "begin")
    /\ audit_logs' = add_audit_entry(audit_logs, CaseOf(r),
                         Entry("Case auto-processing started", "", <<>>))
    /\ runs' = [runs EXCEPT ![r].pc = "ingest"]
    /\ UNCHANGED <<cases, case_resolutions, response>>

\* ingest_case with input.case_id set
ingest_case(r) ==
    /\ At(r, "ingest")
    /\ audit_logs' = add_audit_entry(audit_logs, CaseOf(r),
                         Entry("Case processing started (using existing case).", "", <<>>))
    /\ runs' = [runs EXCEPT ![r].pc = "verify"]
    /\ UNCHANGED <<cases, case_resolutions, response>>

verify_identity(r) ==
    LET citizen_name == cases[CaseOf(r)].citizen_name
        exists == ~(Len(citizen_name) >= 4
                    /\ Lower(SubSeq(citizen_name, 1, 4)) = <<"t","e","s","t">>)
    IN  /\ At(r, "verify")
        /\ cases' = set_registry_exists(cases, CaseOf(r), IF exists THEN "TRUE" ELSE "FALSE")
        /\ audit_logs' = add_audit_entry(audit_logs, CaseOf(r),
                             Entry("Identity verification run.",
                                   IF exists THEN "True" ELSE "False", <<>>))
        /\ runs' = [runs EXCEPT ![r].pc = "quality"]
        /\ UNCHANGED <<case_resolutions, response>>

\* Variant of NeedsHitl: the threshold taken as 0.60
NeedsHitlBelow60(confidence) == confidence < ConfIncomplete

\* "needs_hitl = confidence < 0.80"
NeedsHitl(confidence) == confidence < HitlThreshold

\* Variant of QualityEntries: the corrections applied are not logged
QualityEntriesNoCorrections(corrections_applied, base, confidence) ==
    <<IF base = ConfIncomplete THEN Entry("Incomplete street detected", "0.6", <<>>)
      ELSE IF base = ConfComplete THEN Entry("Complete street name", "0.9", <<>>)
      ELSE Entry("Street format unclear", "0.75", <<>>)>>
    \o (IF corrections_applied # <<>> /\ base < BoostBelow
        THEN <<Entry("Memory boost applied", ConfText(confidence), <<>>)>>
        ELSE <<>>)
    \o <<IF NeedsHitl(confidence)
         THEN Entry("HITL required.", ConfText(confidence), <<>>)
         ELSE Entry("Address quality OK.", ConfText(confidence), <<>>)>>

\* the audit entries of assess_quality, in the order written
QualityEntries(corrections_applied, base, confidence) ==
    (IF corrections_applied # <<>>
     THEN <<Entry("Memory applied corrections", "", corrections_applied)>>
     ELSE <<>>)
    \o <<IF base = ConfIncomplete THEN Entry("Incomplete street detected", "0.6", <<>>)
         ELSE IF base = ConfComplete THEN Entry("Complete street name", "0.9", <<>>)
         ELSE Entry("Street format unclear", "0.75", <<>>)>>
    \o (IF corrections_applied # <<>> /\ base < BoostBelow
        THEN <<Entry("Memory boost applied", ConfText(confidence), <<>>)>>
        ELSE <<>>)
    \o <<IF NeedsHitl(confidence)
         THEN Entry("HITL required.", ConfText(confidence), <<>>)
         ELSE Entry("Address quality OK.", ConfText(confidence), <<>>)>>

\* assess_quality: apply the learned corrections, classify, boost, store
\* the status and the canonical address; it reads no status
assess_quality(r) ==
    /\ At(r, "quality")
    /\ \E applied \in apply_learned_corrections(case_resolutions,
                                                Strip(runs[r].new_address_raw)) :
         LET corrected_address == applied[1]
             corrections_applied == applied[2]
             base == BaseConfidence(corrected_address)
             confidence == BoostedConfidence(base, corrections_applied)
             canonical == Title(corrected_address)
             needs_hitl == NeedsHitl(confidence)
             status == IF needs_hitl THEN "WAITING_FOR_HUMAN" ELSE "QUALITY_OK"
         IN  /\ cases' = set_canonical_address(
                             update_case_status(cases, CaseOf(r), status),
                             CaseOf(r), canonical)
             /\ audit_logs' = [audit_logs EXCEPT ![CaseOf(r)] =
                                  @ \o QualityEntries(corrections_applied, base, confidence)]
             /\ runs' = [runs EXCEPT ![r].pc = "rules_gate",
                                     ![r].quality =
                                         [NoResult EXCEPT
                                             !.tool = "assess_quality",
                                             !.canonical_address = canonical,
                                             !.confidence = confidence,
                                             !.needs_hitl = needs_hitl,
                                             !.hitl_task_id =
                                                 IF needs_hitl THEN HitlTaskId(CaseOf(r))
                                                 ELSE NoTask]]
    /\ UNCHANGED <<case_resolutions, response>>

\* Variants of RulesPaused, RegistryPaused and CertificatePaused: the status compared with the
\* result word "paused" only
RulesPausedWord(status) == status = "paused"

RegistryPausedWord(status) == status = "paused"

CertificatePausedWord(status) == status = "paused"

\* Variant of CertificatePaused: the certificate step skips whatever it reads
CertificatePausedAlways(status) == TRUE

\* the pause checks of the three downstream tools on the status they read
RulesPaused(status) == status = "WAITING_FOR_HUMAN"

RegistryPaused(status) == status \in {"WAITING_FOR_HUMAN", "paused"}

CertificatePaused(status) == status \in {"WAITING_FOR_HUMAN", "paused"}

\* check_business_rules up to its pause check: fetch_case_by_id, then
\* either the skip entry and the paused result, or on to the rules
check_business_rules_gate(r) ==
    LET status == cases[CaseOf(r)].status
    IN  /\ At(r, "rules_gate")
        /\ IF RulesPaused(status)
           THEN /\ audit_logs' = add_audit_entry(audit_logs, CaseOf(r),
                                     Entry("Business rules check skipped - case waiting for HITL address correction",
                                           "", <<>>))
                /\ runs' = [runs EXCEPT ![r].pc = "registry_gate",
                                        ![r].rules =
                                            [NoResult EXCEPT
                                                !.tool = "check_business_rules",
                                                !.status = "paused",
                                                !.needs_hitl = TRUE,
                                                !.hitl_task_id = HitlTaskId(CaseOf(r)),
                                                !.rule_results =
                                                    [NoRules EXCEPT !.HITL_PENDING = "Waiting for human"]]]
           ELSE /\ runs' = [runs EXCEPT ![r].pc = "rules", ![r].seen_status = status]
                /\ UNCHANGED audit_logs
        /\ UNCHANGED <<cases, case_resolutions, response>>

\* Rule 1: move-in date within [-365, +30] days of now
MinDeltaDays == -365
MaxDeltaDays == 30

\* Variant of MoveInDateRule: the upper limit excluded (delta_days < 30)
MoveInDateRuleBelow30(move_in_date_raw) ==
    IF ~move_in_date_raw.iso THEN "invalid_format"
    ELSE IF MinDeltaDays <= move_in_date_raw.delta_days
            /\ move_in_date_raw.delta_days < MaxDeltaDays
    THEN "ok"
    ELSE "suspicious"

MoveInDateRule(move_in_date_raw) ==
    IF ~move_in_date_raw.iso THEN "invalid_format"
    ELSE IF MinDeltaDays <= move_in_date_raw.delta_days
            /\ move_in_date_raw.delta_days <= MaxDeltaDays
    THEN "ok"
    ELSE "suspicious"

\* Rule 2: the stored canonical address has a comma and a digit
AddressFormatRule(addr) ==
    IF (\E i \in DOMAIN addr : addr[i] = ",") /\ HasDigit(addr) THEN "passed" ELSE "failed"

\* Rule 3: documents presence
DocumentsRule(documents_ok) == IF documents_ok THEN "ok" ELSE "missing_or_invalid"

\* Variant of RulesNeedHitl: the documents rule records its result without
\* raising needs_hitl
RulesNeedHitlNoDocuments(rule_results) ==
    \/ rule_results.move_in_date # "ok"
    \/ rule_results.address_format_compliance # "passed"

\* needs_hitl starts False and every failing rule sets it
RulesNeedHitl(rule_results) ==
    \/ rule_results.move_in_date # "ok"
    \/ rule_results.address_format_compliance # "passed"
    \/ rule_results.documents # "ok"

\* check_business_rules after its pause check: the three rules, then the
\* status and the audit entry; documents_ok is the tool's input
check_business_rules(r, documents_ok) ==
    LET rule_results ==
            [NoRules EXCEPT
                !.move_in_date = MoveInDateRule(cases[CaseOf(r)].move_in_date_raw),
                !.address_format_compliance =
                    AddressFormatRule(cases[CaseOf(r)].canonical_address),
                !.documents = DocumentsRule(documents_ok)]
        needs_hitl == RulesNeedHitl(rule_results)
        overall_status == IF needs_hitl THEN "failed" ELSE "passed"
    IN  /\ At(r, "rules")
        /\ cases' = update_case_status(cases, CaseOf(r),
                        IF needs_hitl THEN "WAITING_FOR_HUMAN" ELSE "RULES_PASSED")
        /\ audit_logs' = add_audit_entry(audit_logs, CaseOf(r),
                             IF needs_hitl
                             THEN Entry("HITL required for business rules.", overall_status, <<>>)
                             ELSE Entry("Business rules passed.", overall_status, <<>>))
        /\ runs' = [runs EXCEPT ![r].pc = "registry_gate",
                                ![r].seen_status = "",
                                ![r].rules =
                                    [NoResult EXCEPT
                                        !.tool = "check_business_rules",
                                        !.status = overall_status,
                                        !.needs_hitl = needs_hitl,
                                        !.hitl_task_id =
                                            IF needs_hitl THEN HitlRulesTaskId(CaseOf(r))
                                            ELSE NoTask,
                                        !.rule_results = rule_results]]
        /\ UNCHANGED <<case_resolutions, response>>

\* update_registry up to its pause check
update_registry_gate(r) ==
    LET status == cases[CaseOf(r)].status
    IN  /\ At(r, "registry_gate")
        /\ IF RegistryPaused(status)
           THEN /\ audit_logs' = add_audit_entry(audit_logs, CaseOf(r),
                                     Entry("Registry update skipped - case waiting for HITL", "", <<>>))
                /\ runs' = [runs EXCEPT ![r].pc = "certificate_gate",
                                        ![r].registry =
                                            [NoResult EXCEPT
                                                !.tool = "update_registry",
                                                !.status = "skipped_hitl_pending"]]
           ELSE /\ runs' = [runs EXCEPT ![r].pc = "registry", ![r].seen_status = status]
                /\ UNCHANGED audit_logs
        /\ UNCHANGED <<cases, case_resolutions, response>>

\* update_registry after its pause check: status UPDATED, the canonical
\* address set to input.new_address (the address assess_quality returned to
\* the crew), one audit entry
update_registry(r) ==
    /\ At(r, "registry")
    /\ cases' = set_canonical_address(
                    update_case_status(cases, CaseOf(r), "UPDATED"),
                    CaseOf(r), runs[r].quality.canonical_address)
    /\ audit_logs' = add_audit_entry(audit_logs, CaseOf(r),
                         Entry("Registry updated (demo)", "", <<>>))
    /\ runs' = [runs EXCEPT ![r].pc = "certificate_gate",
                            ![r].seen_status = "",
                            ![r].registry =
                                [NoResult EXCEPT !.tool = "update_registry",
                                                 !.status = "success"]]
    /\ UNCHANGED <<case_resolutions, response>>

\* generate_certificate up to its pause check
generate_certificate_gate(r) ==
    LET status == cases[CaseOf(r)].status
    IN  /\ At(r, "certificate_gate")
        /\ IF CertificatePaused(status)
           THEN /\ audit_logs' = add_audit_entry(audit_logs, CaseOf(r),
                                     Entry("Certificate generation skipped - case waiting for HITL", "", <<>>))
                /\ runs' = [runs EXCEPT ![r].pc = "audit_log",
                                        ![r].certificate =
                                            [NoResult EXCEPT
                                                !.tool = "generate_certificate",
                                                !.status = "WAITING_FOR_HUMAN",
                                                !.email_status = "skipped"]]
           ELSE /\ runs' = [runs EXCEPT ![r].pc = "certificate", ![r].seen_status = status]
                /\ UNCHANGED audit_logs
        /\ UNCHANGED <<cases, case_resolutions, response>>

\* send_certificate_email returns True only for a 2xx response; a missing
\* API key, any other response and every exception give False
EmailStatusMsg(email_sent) == IF email_sent THEN "sent" ELSE "failed"

\* Variant of CertificateStatus: the case is closed only when the e-mail went out
CertificateStatusIfSent(email_sent) == IF email_sent THEN "CLOSED" ELSE "UPDATED"

\* "update_case_status(input.case_id, 'CLOSED')", after the e-mail attempt
\* whatever it returned
CertificateStatus(email_sent) == "CLOSED"

\* generate_certificate after its pause check: the PDF (its rendering
\* errors are handled inside), the e-mail, status CLOSED, one audit entry;
\* email_sent is what send_certificate_email returns
generate_certificate(r, email_sent) ==
    /\ At(r, "certificate")
    /\ cases' = update_case_status(cases, CaseOf(r), CertificateStatus(email_sent))
    /\ audit_logs' = add_audit_entry(audit_logs, CaseOf(r),
                         Entry("Official PDF certificate generated. Email:",
                               EmailStatusMsg(email_sent), <<>>))
    /\ runs' = [runs EXCEPT ![r].pc = "audit_log",
                            ![r].seen_status = "",
                            ![r].certificate =
                                [NoResult EXCEPT
                                    !.tool = "generate_certificate",
                                    !.status = CertificateStatus(email_sent),
                                    !.email_status = EmailStatusMsg(email_sent)]]
    /\ UNCHANGED <<case_resolutions, response>>

\* generate_audit_log_task: get_audit_log only reads
get_audit_log(r) ==
    /\ At(r, "audit_log")
    /\ runs' = [runs EXCEPT ![r].pc = "finish"]
    /\ UNCHANGED <<cases, audit_logs, case_resolutions, response>>

\* what the thread does after kickoff returns: run_workflow and
\* run_auto_workflow read the status and write an entry for it;
\* resume_workflow does nothing more
finish(r) ==
    LET status == cases[CaseOf(r)].status
        kind == runs[r].kind
    IN  /\ At(r, "finish")
        /\ audit_logs' =
              IF kind = "approve" /\ status = "WAITING_FOR_HUMAN"
              THEN add_audit_entry(audit_logs, CaseOf(r),
                       Entry("Workflow paused - awaiting human address correction", "", <<>>))
              ELSE IF kind = "auto" /\ status = "WAITING_FOR_HUMAN"
              THEN add_audit_entry(audit_logs, CaseOf(r),
                       Entry("Low confidence detected during auto-processing - requires human review", "", <<>>))
              ELSE IF kind = "auto" /\ status = "CLOSED"
              THEN add_audit_entry(audit_logs, CaseOf(r),
                       Entry("Case auto-processed and completed successfully", "", <<>>))
              ELSE audit_logs
        /\ runs' = [runs EXCEPT ![r] = Ended(runs[r], "done")]
        /\ UNCHANGED <<cases, case_resolutions, response>>

\* an exception leaves kickoff (or the code around it): the except block of
\* the thread sets status ERROR with a bare UPDATE and writes no audit entry
workflow_error(r) ==
    /\ r \in ActiveRuns
    /\ cases' = [cases EXCEPT ![CaseOf(r)].status = "ERROR"]
    /\ runs' = [runs EXCEPT ![r] = Ended(runs[r], "error")]
    /\ UNCHANGED <<audit_logs, case_resolutions, response>>

\* ------------------------------------------------------------------------
\* Specifications
\* ------------------------------------------------------------------------

CaseIds == 1..(Len(cases) + 1)

PipelineStep(r) ==
    \/ auto_begin(r)
    \/ ingest_case(r)
    \/ verify_identity(r)
    \/ assess_quality(r)
    \/ check_business_rules_gate(r)
    \/ \E documents_ok \in BOOLEAN : check_business_rules(r, documents_ok)
    \/ update_registry_gate(r)
    \/ update_registry(r)
    \/ generate_certificate_gate(r)
    \/ \E email_sent \in BOOLEAN : generate_certificate(r, email_sent)
    \/ get_audit_log(r)
    \/ finish(r)

Step(r) == PipelineStep(r) \/ workflow_error(r)

Submit ==
    \E citizen_name \in CitizenNames, new_address_raw \in RawAddresses,
       move_in_date_raw \in MoveInDates, fields_ok \in BOOLEAN :
        submit_case(citizen_name, new_address_raw, move_in_date_raw, fields_ok)

\* one trigger at a time per case: the operator approves or resolves a case
\* only while no pipeline run of that case is in flight
Next ==
    \/ Submit
    \/ \E case_id \in CaseIds : ActiveOn(case_id) = {} /\ approve_case(case_id)
    \/ \E case_id \in CaseIds, corrected_address \in CorrectedAddresses :
           ActiveOn(case_id) = {} /\ resolve_hitl(case_id, corrected_address)
    \/ \E r \in DOMAIN runs : Step(r)

Spec == Init /\ [][Next]_vars

\* Duplicate triggers: the operator approves a case again while its one
\* pipeline run (started by a clean submission or by the first approval) is
\* still in flight, so that two runs of one case execute concurrently.
\* The steps that neither read nor write the status (auto_begin,
\* ingest_case, verify_identity, get_audit_log) commute with every step of
\* another run up to the order of the audit entries; they are scheduled
\* first, lowest run first, so that only the steps that touch the status are
\* interleaved.  Store failures and human resolutions are left out.
RunsOn(case_id) == { r \in DOMAIN runs : runs[r].case_id = case_id }

DuplicateAllowed(case_id) ==
    /\ RunsOn(case_id) \subseteq ActiveRuns
    /\ \A r1, r2 \in RunsOn(case_id) : r1 = r2

StatusFree(r) == runs[r].pc \in {"begin", "ingest", "verify", "audit_log"}

Scheduled(r) ==
    IF \E q \in DOMAIN runs : StatusFree(q)
    THEN StatusFree(r) /\ \A q \in DOMAIN runs : StatusFree(q) => r <= q
    ELSE TRUE

NextRace ==
    \/ Submit
    \/ \E case_id \in DOMAIN cases : DuplicateAllowed(case_id) /\ approve_case(case_id)
    \/ \E r \in DOMAIN runs : Scheduled(r) /\ PipelineStep(r)

SpecRace == Init /\ [][NextRace]_vars

\* Early resolutions: the operator resolves a case as soon as its status shows
\* WAITING_FOR_HUMAN, while the one run of the case, which asked for the
\* human, is still in flight; resolve_hitl checks the status only.
\* The steps are scheduled as in NextRace.
NextOverlap ==
    \/ Submit
    \/ \E case_id \in DOMAIN cases, corrected_address \in CorrectedAddresses :
           /\ ActiveOn(case_id) # {}
           /\ DuplicateAllowed(case_id)
           /\ cases[case_id].status = "WAITING_FOR_HUMAN"
           /\ resolve_hitl(case_id, corrected_address)
    \/ \E r \in DOMAIN runs : Scheduled(r) /\ PipelineStep(r)

SpecOverlap == Init /\ [][NextOverlap]_vars

\* The background threads when no step raises: every started thread is
\* scheduled until it returns, so each run's next step is weakly fair.
\* assess_quality(r) is enabled exactly when run r stands at "quality" and
\* is the only step that leaves that position, so its weak fairness is
\* stated on the position: the run does not stay there for ever.
NextLive ==
    \/ Submit
    \/ \E case_id \in CaseIds : ActiveOn(case_id) = {} /\ approve_case(case_id)
    \/ \E case_id \in CaseIds, corrected_address \in CorrectedAddresses :
           ActiveOn(case_id) = {} /\ resolve_hitl(case_id, corrected_address)
    \/ \E r \in DOMAIN runs : PipelineStep(r)

Fairness ==
    \A r \in 1..MaxRuns :
        /\ WF_vars(~At(r, "quality") /\ PipelineStep(r))
        /\ []<>(~At(r, "quality"))

SpecLive == Init /\ [][NextLive]_vars /\ Fairness

\* ------------------------------------------------------------------------
\* Properties
\* ------------------------------------------------------------------------

\* run r takes a pipeline step (and does not fail) in the transition
Stepped(r) == runs'[r].pc \notin {runs[r].pc, "error"}

LastEntry(case_id) == audit_logs[case_id][Len(audit_logs[case_id])]

\* the audit log of case_id grows by exactly the entries added
Appended(case_id, added) == audit_logs'[case_id] = audit_logs[case_id] \o added

\* C1: whenever check_business_rules, update_registry or generate_certificate
\* reaches its pause check on a case whose status is WAITING_FOR_HUMAN, the
\* status and the canonical address (the whole case row) stay as they are,
\* exactly one audit entry, the step's skip notice, is appended, and the
\* result returned is the paused / skipped one.
C1_SkipWhileWaiting ==
    [][\A r \in DOMAIN runs :
          (/\ runs[r].pc \in {"rules_gate", "registry_gate", "certificate_gate"}
           /\ cases[CaseOf(r)].status = "WAITING_FOR_HUMAN"
           /\ Stepped(r))
          => /\ cases' = cases
             /\ case_resolutions' = case_resolutions
             /\ \A c \in DOMAIN audit_logs : c # CaseOf(r) => audit_logs'[c] = audit_logs[c]
             /\ runs[r].pc = "rules_gate" =>
                   /\ Appended(CaseOf(r), <<Entry("Business rules check skipped - case waiting for HITL address correction", "", <<>>)>>)
                   /\ runs'[r].rules.status = "paused"
                   /\ runs'[r].pc = "registry_gate"
             /\ runs[r].pc = "registry_gate" =>
                   /\ Appended(CaseOf(r), <<Entry("Registry update skipped - case waiting for HITL", "", <<>>)>>)
                   /\ runs'[r].registry.status = "skipped_hitl_pending"
                   /\ runs'[r].pc = "certificate_gate"
             /\ runs[r].pc = "certificate_gate" =>
                   /\ Appended(CaseOf(r), <<Entry("Certificate generation skipped - case waiting for HITL", "", <<>>)>>)
                   /\ runs'[r].certificate.status = "WAITING_FOR_HUMAN"
                   /\ runs'[r].certificate.email_status = "skipped"
                   /\ runs'[r].pc = "audit_log"
      ]_vars

\* a run in which all three downstream steps have skipped
C1_AllThreeSkipped ==
    \E r \in DOMAIN runs :
        /\ runs[r].pc = "audit_log"
        /\ runs[r].rules.status = "paused"
        /\ runs[r].registry.status = "skipped_hitl_pending"
        /\ runs[r].certificate.email_status = "skipped"
        /\ cases[CaseOf(r)].status = "WAITING_FOR_HUMAN"
        /\ LastEntry(CaseOf(r)).message = "Certificate generation skipped - case waiting for HITL"

\* the run has set WAITING_FOR_HUMAN: its Quality step or its Business Rules
\* step returned needs_hitl after writing that status
SetWaiting(r) ==
    \/ runs[r].quality.tool = "assess_quality" /\ runs[r].quality.needs_hitl
    \/ runs[r].rules.status = "failed"

\* C2: with one trigger at a time per case, from the moment a run's Quality
\* or Business Rules step sets WAITING_FOR_HUMAN until that run has returned,
\* the status is WAITING_FOR_HUMAN (never RULES_PASSED, UPDATED or CLOSED),
\* and every later step of the run has returned its paused / skipped result.
C2_WaitingHoldsForTheRun ==
    \A r \in ActiveRuns :
        SetWaiting(r) =>
            /\ cases[CaseOf(r)].status = "WAITING_FOR_HUMAN"
            /\ runs[r].quality.needs_hitl /\ runs[r].rules.tool # "" =>
                   runs[r].rules.status = "paused"
            /\ runs[r].registry.tool # "" => runs[r].registry.status = "skipped_hitl_pending"
            /\ runs[r].certificate.tool # "" => runs[r].certificate.email_status = "skipped"

\* a run whose Business Rules step set WAITING_FOR_HUMAN has come to its end
C2_RunEndsWaiting ==
    \E r \in DOMAIN runs :
        /\ runs[r].pc = "finish"
        /\ runs[r].rules.status = "failed"
        /\ runs[r].registry.status = "skipped_hitl_pending"
        /\ runs[r].certificate.email_status = "skipped"
        /\ cases[CaseOf(r)].status = "WAITING_FOR_HUMAN"

\* C3: assess_quality returns needs_hitl = true exactly when the confidence it
\* computed is below 0.80; then the status it leaves is WAITING_FOR_HUMAN and
\* the task id is "HITL-" + case id; otherwise the status is QUALITY_OK and
\* there is no task id.  The last audit entry carries that confidence.
C3_QualityThreshold ==
    [][\A r \in DOMAIN runs :
          (runs[r].pc = "quality" /\ Stepped(r)) =>
              LET result == runs'[r].quality
              IN  /\ result.tool = "assess_quality"
                  /\ result.confidence \in {60, 70, 75, 85, 90}
                  /\ result.needs_hitl <=> result.confidence < 80
                  /\ audit_logs'[CaseOf(r)][Len(audit_logs'[CaseOf(r)])].detail
                         = ConfText(result.confidence)
                  /\ result.needs_hitl =>
                         /\ cases'[CaseOf(r)].status = "WAITING_FOR_HUMAN"
                         /\ result.hitl_task_id = <<"HITL-", CaseOf(r)>>
                  /\ ~result.needs_hitl =>
                         /\ cases'[CaseOf(r)].status = "QUALITY_OK"
                         /\ result.hitl_task_id = <<>>
      ]_vars

\* Quality has just asked for a human on a confidence of 0.6
C3_QualityAsksHuman ==
    \E r \in DOMAIN runs :
        /\ runs[r].pc = "rules_gate"
        /\ runs[r].quality.needs_hitl
        /\ runs[r].quality.confidence = 60
        /\ runs[r].quality.hitl_task_id = <<"HITL-", CaseOf(r)>>
        /\ cases[CaseOf(r)].status = "WAITING_FOR_HUMAN"
        /\ LastEntry(CaseOf(r)).message = "HITL required."

\* C4: check_business_rules on a case that is not WAITING_FOR_HUMAN returns
\* needs_hitl = true exactly when at least one rule fails; then the status is
\* WAITING_FOR_HUMAN and the task id is "HITL-RULES-" + case id; otherwise
\* the status is RULES_PASSED.
C4_RulesOutcome ==
    [][\A r \in DOMAIN runs :
          (runs[r].pc = "rules" /\ runs[r].seen_status # "WAITING_FOR_HUMAN" /\ Stepped(r)) =>
              LET result == runs'[r].rules
                  failing == { rule \in {"move_in_date", "address_format_compliance", "documents"} :
                                 result.rule_results[rule] \notin {"ok", "passed"} }
              IN  /\ result.rule_results.move_in_date
                         = MoveInDateRule(cases[CaseOf(r)].move_in_date_raw)
                  /\ result.rule_results.documents \in {"ok", "missing_or_invalid"}
                  /\ result.needs_hitl <=> failing # {}
                  /\ result.needs_hitl =>
                         /\ cases'[CaseOf(r)].status = "WAITING_FOR_HUMAN"
                         /\ result.hitl_task_id = <<"HITL-RULES-", CaseOf(r)>>
                         /\ result.status = "failed"
                  /\ ~result.needs_hitl =>
                         /\ cases'[CaseOf(r)].status = "RULES_PASSED"
                         /\ result.hitl_task_id = <<>>
                         /\ result.status = "passed"
      ]_vars

\* Business Rules has just failed on the documents rule alone
C4_DocumentsRuleFails ==
    \E r \in DOMAIN runs :
        /\ runs[r].pc = "registry_gate"
        /\ runs[r].rules.status = "failed"
        /\ runs[r].rules.rule_results.move_in_date = "ok"
        /\ runs[r].rules.rule_results.address_format_compliance = "passed"
        /\ runs[r].rules.rule_results.documents = "missing_or_invalid"
        /\ runs[r].rules.hitl_task_id = <<"HITL-RULES-", CaseOf(r)>>
        /\ cases[CaseOf(r)].status = "WAITING_FOR_HUMAN"

C6_RejectedChangesNothing ==
    [][(response' # response /\ response'.op \in {"resolve_hitl", "approve_case"}) =>
          LET case_id == response'.case_id
          IN  /\ case_id \notin DOMAIN cases =>
                    /\ response'.code = 404
                    /\ UNCHANGED <<cases, audit_logs, case_resolutions, runs>>
              /\ (/\ response'.op = "resolve_hitl"
                  /\ case_id \in DOMAIN cases
                  /\ cases[case_id].status # "WAITING_FOR_HUMAN") =>
                    /\ response'.code = 400
                    /\ UNCHANGED <<cases, audit_logs, case_resolutions, runs>>
      ]_vars

\* a resolution of an existing case that is not waiting has been refused
C6_ResolveRefused ==
    /\ response.op = "resolve_hitl"
    /\ response.code = 400
    /\ response.case_id \in DOMAIN cases
    /\ cases[response.case_id].status = "CLOSED"

\* C7: when a continuation is started by resolve_hitl, the case was
\* WAITING_FOR_HUMAN, and at the handler's return the canonical address is
\* the corrected address, the status is QUALITY_OK, the audit entry of the
\* resolution has been appended, the answer is 200, and the continuation has
\* not run any step yet.
C7_AcceptedResolution ==
    [][(/\ Len(runs') = Len(runs) + 1
        /\ runs'[Len(runs')].kind = "resume") =>
          LET case_id == runs'[Len(runs')].case_id
              corrected_address == runs'[Len(runs')].new_address_raw
              n == Len(audit_logs[case_id])
          IN  /\ case_id \in DOMAIN cases
              /\ cases[case_id].status = "WAITING_FOR_HUMAN"
              /\ corrected_address \in CorrectedAddresses
              /\ cases'[case_id].canonical_address = corrected_address
              /\ cases'[case_id].status = "QUALITY_OK"
              /\ Len(audit_logs'[case_id]) > n
              /\ SubSeq(audit_logs'[case_id], 1, n + 1)
                     = Append(audit_logs[case_id],
                              Entry("HITL resolved: Admin corrected address",
                                    corrected_address, <<>>))
              /\ response' = Response("resolve_hitl", case_id, 200)
              /\ runs'[Len(runs')].quality = NoResult
              /\ runs'[Len(runs')].rules = NoResult
              /\ SubSeq(runs', 1, Len(runs)) = runs
      ]_vars

\* a resolution has just been accepted
C7_ResolutionAccepted ==
    /\ response = Response("resolve_hitl", 1, 200)
    /\ runs # <<>>
    /\ runs[Len(runs)].kind = "resume"
    /\ runs[Len(runs)].pc = "ingest"
    /\ cases[1].status = "QUALITY_OK"
    /\ cases[1].canonical_address = runs[Len(runs)].new_address_raw
    /\ \E i \in DOMAIN audit_logs[1] :
           audit_logs[1][i].message = "HITL resolved: Admin corrected address"

\* C8: when generate_certificate passes its pause check and returns, the
\* status is CLOSED whether the e-mail was sent or not, and the audit entry
\* it appends records the outcome of the delivery.
C8_ClosedWhateverTheEmail ==
    [][\A r \in DOMAIN runs :
          (runs[r].pc = "certificate" /\ Stepped(r)) =>
              /\ cases'[CaseOf(r)].status = "CLOSED"
              /\ runs'[r].certificate.email_status \in {"sent", "failed"}
              /\ Appended(CaseOf(r),
                          <<Entry("Official PDF certificate generated. Email:",
                                  runs'[r].certificate.email_status, <<>>)>>)
      ]_vars

\* a certificate whose e-mail failed has closed the case
C8_ClosedWithFailedEmail ==
    \E r \in DOMAIN runs :
        /\ runs[r].pc = "audit_log"
        /\ runs[r].certificate.email_status = "failed"
        /\ cases[CaseOf(r)].status = "CLOSED"
        /\ LastEntry(CaseOf(r)).detail = "failed"

\* C9 as stated: when a run fails with an exception, the status is set to
\* ERROR, an audit entry for the failure is appended, and nothing written
\* before (the canonical address, the earlier audit entries) is undone.
C9_ErrorIsAudited ==
    [][\A r \in DOMAIN runs :
          (runs[r].pc # "error" /\ runs'[r].pc = "error") =>
              /\ cases'[CaseOf(r)].status = "ERROR"
              /\ cases'[CaseOf(r)].canonical_address = cases[CaseOf(r)].canonical_address
              /\ Len(audit_logs'[CaseOf(r)]) = Len(audit_logs[CaseOf(r)]) + 1
              /\ SubSeq(audit_logs'[CaseOf(r)], 1, Len(audit_logs[CaseOf(r)]))
                     = audit_logs[CaseOf(r)]
      ]_vars

\* C10: the pause check is a read followed, in a later step, by the write:
\* a step that has passed its pause check writes its status whatever the
\* stored status has become meanwhile, in particular over the
\* WAITING_FOR_HUMAN that a concurrent run of the same case has set.
C10_ActOverwritesWaiting ==
    [][\A r \in DOMAIN runs :
          (/\ runs[r].pc \in {"rules", "registry", "certificate"}
           /\ runs[r].seen_status # "WAITING_FOR_HUMAN"
           /\ cases[CaseOf(r)].status = "WAITING_FOR_HUMAN"
           /\ Stepped(r))
          => cases'[CaseOf(r)].status =
                 IF runs[r].pc = "registry" THEN "UPDATED"
                 ELSE IF runs[r].pc = "certificate" THEN "CLOSED"
                 ELSE IF runs'[r].rules.needs_hitl THEN "WAITING_FOR_HUMAN"
                 ELSE "RULES_PASSED"
      ]_vars

\* the entries that record a write of the status
StatusEntries ==
    {"HITL required.", "Address quality OK.", "HITL required for business rules.",
     "Business rules passed.", "Registry updated (demo)",
     "Official PDF certificate generated. Email:",
     "HITL resolved: Admin corrected address"}

\* both runs of a case had started, one set WAITING_FOR_HUMAN, and the next
\* write of the status is the other's advance, with no resolution between
C10_AdvancedOverWaiting ==
    \E case_id \in DOMAIN cases :
        LET log == audit_logs[case_id]
        IN  \E i \in DOMAIN log :
                /\ i < Len(log)
                /\ log[i].message = "HITL required for business rules."
                /\ Cardinality({ k \in 1..i :
                       log[k].message = "Case processing started (using existing case)." }) = 2
                /\ \A k \in (i + 1)..(Len(log) - 1) : log[k].message \notin StatusEntries
                /\ log[Len(log)].message \in
                       {"Business rules passed.", "Registry updated (demo)",
                        "Official PDF certificate generated. Email:"}
                /\ cases[case_id].status \in {"RULES_PASSED", "UPDATED", "CLOSED"}

\* the continuation r of an accepted resolution has been started on a case
\* whose move-in date is within the window of rule 1
ResumeAccepted(r) ==
    /\ r \in DOMAIN runs
    /\ runs[r].kind = "resume"
    /\ runs[r].pc = ResumeEntry
    /\ MoveInDateRule(cases[runs[r].case_id].move_in_date_raw) = "ok"

\* C11 as stated: a continuation of an accepted resolution whose Business
\* Rules did not fail has closed the case when it returns (it has not put
\* the case back to WAITING_FOR_HUMAN).
C11_ResumedRunEndsClosed ==
    \A r \in DOMAIN runs :
        (/\ runs[r].kind = "resume"
         /\ runs[r].pc = "finish"
         /\ MoveInDateRule(cases[CaseOf(r)].move_in_date_raw) = "ok"
         /\ runs[r].rules.status # "failed")
        => cases[CaseOf(r)].status = "CLOSED"

\* C11, amended: once a resolution has been accepted, if no step raises and
\* the background run is scheduled fairly, then eventually the case is
\* CLOSED, or the re-executed Quality step has asked for a human again (the
\* corrected address scored below 0.80), or Business Rules has failed.
C11_ResolvedEventuallyClosed ==
    \A r \in 1..MaxRuns :
        ResumeAccepted(r) ~>
            (/\ r \in DOMAIN runs
             /\ \/ cases[runs[r].case_id].status = "CLOSED"
                \/ runs[r].quality.needs_hitl
                \/ runs[r].rules.status = "failed")

\* the continuation of a resolution has closed the case
C11_ResumedRunClosed ==
    \E r \in DOMAIN runs :
        /\ runs[r].kind = "resume"
        /\ runs[r].pc = "audit_log"
        /\ ~runs[r].quality.needs_hitl
        /\ runs[r].rules.status = "passed"
        /\ runs[r].certificate.status = "CLOSED"
        /\ cases[CaseOf(r)].status = "CLOSED"

\* the pipeline order of the statuses; the intake-side statuses stand
\* before the pipeline, with INGESTED
PipelineRank(status) ==
    IF status \in {"INGESTED", "PENDING_REVIEW", "PROCESSING"} THEN 0
    ELSE IF status = "QUALITY_OK" THEN 1
    ELSE IF status = "RULES_PASSED" THEN 2
    ELSE IF status = "UPDATED" THEN 3
    ELSE IF status = "CLOSED" THEN 4
    ELSE -1

\* C12 as stated: every change of a case's status moves it forward in the
\* order INGESTED < QUALITY_OK < RULES_PASSED < UPDATED < CLOSED, except for
\* entering WAITING_FOR_HUMAN from the Quality or Business Rules step and
\* leaving it to QUALITY_OK on an accepted resolution; a CLOSED case never
\* changes status.  (Moves among the intake statuses and moves to and from
\* the orthogonal ERROR are let through.)
C12_StatusMonotonic ==
    [][\A case_id \in DOMAIN cases :
          LET old == cases[case_id].status
              new == cases'[case_id].status
          IN  old # new =>
                \/ old # "CLOSED" /\ (new = "ERROR" \/ old = "ERROR")
                \/ /\ PipelineRank(old) >= 0
                   /\ PipelineRank(new) >= 0
                   /\ \/ PipelineRank(old) < PipelineRank(new)
                      \/ PipelineRank(old) = 0 /\ PipelineRank(new) = 0
                \/ /\ new = "WAITING_FOR_HUMAN"
                   /\ old # "CLOSED"
                   /\ \E r \in DOMAIN runs :
                          /\ CaseOf(r) = case_id
                          /\ runs[r].pc \in {"quality", "rules"}
                          /\ Stepped(r)
                \/ /\ old = "WAITING_FOR_HUMAN"
                   /\ new = "QUALITY_OK"
                   /\ response' = Response("resolve_hitl", case_id, 200)
                   /\ Len(runs') = Len(runs) + 1
      ]_vars

\* C13 as stated: the stored canonical address of a case changes only in a
\* Quality step on the case or in an accepted human resolution of the case;
\* every other operation leaves it unchanged.
C13_CanonicalOnlyByQualityOrHuman ==
    [][\A case_id \in DOMAIN cases :
          cases'[case_id].canonical_address # cases[case_id].canonical_address =>
              \/ \E r \in DOMAIN runs :
                     /\ CaseOf(r) = case_id
                     /\ runs[r].pc = "quality"
                     /\ Stepped(r)
              \/ /\ Len(runs') = Len(runs) + 1
                 /\ runs'[Len(runs')].kind = "resume"
                 /\ runs'[Len(runs')].case_id = case_id
      ]_vars

\* ------------------------------------------------------------------------
\* Memory system tools (mcp_server.py) called on their own
\* ------------------------------------------------------------------------

\* "KL", "kl", "Kaiserslautern", "Kaiserslautern-Mitte"
TokKL == <<"K","L">>

TokKlLower == <<"k","l">>

TokKaiserslautern == <<"K","a","i","s","e","r","s","l","a","u","t","e","r","n">>

TokMitte == TokKaiserslautern \o <<"-","M","i","t","t","e">>

\* the inputs of store_resolution_mcp
StoreOriginals == {TokKL, TokKaiserslautern}

StoreValues == {TokKaiserslautern, TokMitte, TokKL}

StoreTypes == {"city_abbreviation", "street_abbreviation"}

\* "Hauptweg 5, 67663 kl"
AddrHauptwegLower ==
    SubSeq(AddrHauptweg, 1, Len(AddrHauptweg) - 2) \o TokKlLower

\* the inputs of lookup_similar_cases_mcp
LookupAddresses == {AddrHauptweg, AddrHauptwegLower}

\* the number of store_resolution_mcp calls
MaxStores == 3

RECURSIVE TotalFrequency(_)
TotalFrequency(table) ==
    IF table = <<>> THEN 0 ELSE Head(table).frequency + TotalFrequency(Tail(table))

\* the id RETURNING gives: ids are handed out in insertion order and no
\* row is ever deleted, so the id of a row is its position
ResolutionId(table, o, t) ==
    CHOOSE k \in DOMAIN table :
        /\ table[k].original_pattern = o /\ table[k].resolution_type = t
        /\ \A m \in DOMAIN table :
               (table[m].original_pattern = o /\ table[m].resolution_type = t) => k <= m

\* store_resolution_mcp: store the pattern, answer with the row id and a
\* message that quotes the pattern and the value
store_resolution_mcp(original_pattern, corrected_value, resolution_type) ==
    /\ TotalFrequency(case_resolutions) < MaxStores
    /\ case_resolutions' = store_resolution(case_resolutions, original_pattern,
                                            corrected_value, resolution_type)
    /\ response' = [op |-> "store_resolution_mcp",
                    resolution_id |-> ResolutionId(case_resolutions', original_pattern,
                                                   resolution_type),
                    original_pattern |-> original_pattern,
                    corrected_value |-> corrected_value]
    /\ UNCHANGED <<cases, audit_logs, runs>>

\* "min(0.3, len(corrections_applied) * 0.1)", in hundredths
LookupBoostCap == 30

LookupBoost(corrections_applied) == Min(LookupBoostCap, Len(corrections_applied) * ConfBoost)

\* lookup_similar_cases_mcp: apply the learned corrections to the address
\* as given and answer with the result; the table is only read
lookup_similar_cases_mcp(address_raw) ==
    /\ \E applied \in apply_learned_corrections(case_resolutions, address_raw) :
           response' = [op |-> "lookup_similar_cases_mcp",
                        original_address |-> address_raw,
                        corrected_address |-> applied[1],
                        corrections_applied |-> applied[2],
                        confidence_boost |-> LookupBoost(applied[2])]
    /\ UNCHANGED <<cases, audit_logs, case_resolutions, runs>>

NextMemory ==
    \/ \E o \in StoreOriginals, c \in StoreValues, t \in StoreTypes :
           store_resolution_mcp(o, c, t)
    \/ \E address_raw \in LookupAddresses : lookup_similar_cases_mcp(address_raw)

SpecMemory == Init /\ [][NextMemory]_vars

\* rows j and k of the table carry the same (original_pattern, resolution_type)
SamePair(table, j, k) ==
    /\ table[j].original_pattern = table[k].original_pattern
    /\ table[j].resolution_type = table[k].resolution_type

\* C14: every store call leaves exactly one row per (original, type) pair;
\* the row of the stored pair has frequency 1 when the pair is new and one
\* more than before when it existed (so the frequency counts the calls made
\* for the pair), its corrected value is the one of this call, and every
\* other row is as it was.
C14_StoreUpserts ==
    [][case_resolutions' # case_resolutions =>
          LET old == case_resolutions
              new == case_resolutions'
              i == response'.resolution_id
          IN  /\ response'.op = "store_resolution_mcp"
              /\ i \in DOMAIN new
              /\ new[i].original_pattern = response'.original_pattern
              /\ new[i].corrected_value = response'.corrected_value
              /\ \A j, k \in DOMAIN new : SamePair(new, j, k) => j = k
              /\ \A k \in DOMAIN old : k # i => new[k] = old[k]
              /\ IF i \in DOMAIN old
                 THEN /\ Len(new) = Len(old)
                      /\ new[i].original_pattern = old[i].original_pattern
                      /\ new[i].resolution_type = old[i].resolution_type
                      /\ new[i].frequency = old[i].frequency + 1
                 ELSE /\ Len(new) = Len(old) + 1
                      /\ i = Len(new)
                      /\ new[i].frequency = 1]_vars

\* a pair stored twice, the second time with another value, next to a
\* second pair
C14_StoredTwice ==
    /\ response.op = "store_resolution_mcp"
    /\ Len(case_resolutions) = 2
    /\ response.resolution_id = 1
    /\ case_resolutions[1] = PatternRow(TokKL, TokKaiserslautern, "city_abbreviation", 2)
    /\ case_resolutions[2].frequency = 1

\* C15: a lookup answers with an address on which apply_learned_corrections,
\* run again on the same table, changes nothing and applies no correction.
C15_ApplyLearnedIdempotent ==
    [][(response'.op = "lookup_similar_cases_mcp" /\ case_resolutions' = case_resolutions) =>
          apply_learned_corrections(case_resolutions, response'.corrected_address)
              = {<<response'.corrected_address, <<>>>>}]_vars

\* ------------------------------------------------------------------------
\* assess_quality on its own: a run that has reached the Quality step, for
\* every address and pattern memory of the sets below
\* ------------------------------------------------------------------------

\* "Alter Weg 5, 67663 KL"
AddrAlterWeg ==
    <<"A","l","t","e","r"," ","W","e","g"," ","5",","," ","6","7","6","6","3",
      " ","K","L">>

\* "Hauptweg 5 Ecke Hofstr, 67663 KL"
AddrEcke ==
    <<"H","a","u","p","t","w","e","g"," ","5"," ","E","c","k","e"," ","H","o",
      "f","s","t","r",","," ","6","7","6","6","3"," ","K","L">>

\* "Haupt Str 12, 67663 KL"
AddrHauptStr ==
    <<"H","a","u","p","t"," ","S","t","r"," ","1","2",","," ","6","7","6","6",
      "3"," ","K","L">>

AddrEmpty == <<>>

AddrBlank == <<" "," ">>

\* new_address_raw of the case at the Quality step
QualityAddresses ==
    {AddrMusterstr, AddrAmMarkt, AddrHauptweg, AddrMusterstrasse, AddrAlterWeg,
     AddrEcke, AddrHauptStr, AddrEmpty, AddrBlank}

\* the pattern memory after no, one or two human resolutions of the model's
\* addresses
QualityMemories ==
    LET learned == {<<>>} \cup {LearnedFrom[x] : x \in DOMAIN LearnedFrom}
    IN  { StoreAll(StoreAll(<<>>, a), b) : a, b \in learned }

\* a case approved by the administrator whose run_workflow thread has done
\* ingest_case and verify_identity
InitQuality ==
    /\ \E new_address_raw \in QualityAddresses :
           /\ cases = <<[CaseRow("PROCESSING", NameMax, new_address_raw, MoveInDate(TRUE, 10))
                           EXCEPT !.registry_exists = "TRUE"]>>
           /\ runs = <<Run("approve", 1, new_address_raw, "quality")>>
    /\ audit_logs = << <<Entry("Case processing started (using existing case).", "", <<>>),
                         Entry("Identity verification run.", "True", <<>>)>> >>
    /\ case_resolutions \in QualityMemories
    /\ response = Response("approve_case", 1, 200)

NextQuality == \E r \in DOMAIN runs : assess_quality(r)

SpecQuality == InitQuality /\ [][NextQuality]_vars

\* s has the word tok (case as written) among its word tokens
HasToken(s, tok) ==
    \E i \in DOMAIN tokenize_address(s) : tokenize_address(s)[i] = tok

\* the pattern memory holds the row KL -> Kaiserslautern
KnowsKL ==
    \E i \in DOMAIN case_resolutions :
        /\ case_resolutions[i].original_pattern = TokKL
        /\ case_resolutions[i].corrected_value = TokKaiserslautern

\* what the audit log of the case says about its Quality step: the branch
\* the classifier took, and whether a memory correction was applied
Logged(case_id, message) ==
    \E i \in DOMAIN audit_logs[case_id] : audit_logs[case_id][i].message = message

LoggedBase(case_id) ==
    IF Logged(case_id, "Incomplete street detected") THEN 60
    ELSE IF Logged(case_id, "Complete street name") THEN 90
    ELSE IF Logged(case_id, "Street format unclear") THEN 75
    ELSE 0

\* the run has done its Quality step
Assessed(r) == At(r, "rules_gate") /\ runs[r].quality.tool = "assess_quality"

\* C16 as stated: with KL -> Kaiserslautern in the memory, every raw address
\* with the word KL is scored with Kaiserslautern in place of KL, and the
\* confidence returned is the classifier's confidence plus 0.10.
C16_BoostAfterKL ==
    \A r \in DOMAIN runs :
        (Assessed(r) /\ KnowsKL /\ HasToken(runs[r].new_address_raw, TokKL)) =>
            /\ HasToken(runs[r].quality.canonical_address, TokKaiserslautern)
            /\ ~HasToken(Lower(runs[r].quality.canonical_address), TokKlLower)
            /\ runs[r].quality.confidence = LoggedBase(CaseOf(r)) + 10

\* C16, amended: with KL -> Kaiserslautern in the memory, every raw address
\* with the word KL is scored with Kaiserslautern in place of KL; the
\* confidence returned is the classifier's confidence plus 0.10 when that is
\* below 0.90, and the classifier's confidence itself when it is 0.90.
C16_BoostAfterKLBelow90 ==
    \A r \in DOMAIN runs :
        (Assessed(r) /\ KnowsKL /\ HasToken(runs[r].new_address_raw, TokKL)) =>
            /\ HasToken(runs[r].quality.canonical_address, TokKaiserslautern)
            /\ ~HasToken(Lower(runs[r].quality.canonical_address), TokKlLower)
            /\ cases[CaseOf(r)].canonical_address = runs[r].quality.canonical_address
            /\ Logged(CaseOf(r), "Memory applied corrections")
            /\ LoggedBase(CaseOf(r)) \in {60, 75, 90}
            /\ runs[r].quality.confidence =
                   IF LoggedBase(CaseOf(r)) < 90 THEN LoggedBase(CaseOf(r)) + 10
                   ELSE LoggedBase(CaseOf(r))

\* "Am Markt 5, 67663 KL" scored as "Am Markt 5, 67663 Kaiserslautern":
\* unclear street, 0.75 + 0.10
C16_KLExpandedAndBoosted ==
    \E r \in DOMAIN runs :
        /\ Assessed(r)
        /\ KnowsKL
        /\ runs[r].new_address_raw = AddrAmMarkt
        /\ runs[r].quality.canonical_address =
               SubSeq(AddrAmMarkt, 1, Len(AddrAmMarkt) - 2) \o TokKaiserslautern
        /\ runs[r].quality.confidence = 85
        /\ cases[CaseOf(r)].status = "QUALITY_OK"

\* s has a word that ends in suf, ignoring case
WordEndingIn(s, suf) ==
    \E i \in DOMAIN tokenize_address(s) : EndsWith(Lower(tokenize_address(s)[i]), suf)

\* s has a word that ends in suf and is longer than suf, ignoring case
LongerWordEndingIn(s, suf) ==
    \E i \in DOMAIN tokenize_address(s) :
        /\ EndsWith(Lower(tokenize_address(s)[i]), suf)
        /\ Len(tokenize_address(s)[i]) > Len(suf)

\* C17 as stated: the classifier's confidence is 0.60 if the corrected
\* address has a word ending in "str", otherwise 0.90 if it has a word ending
\* in a full street suffix, otherwise 0.75; an empty or blank address gets
\* 0.75; "Musterstr 12a, 67264 KL" with an empty memory gets 0.60 and the
\* case is WAITING_FOR_HUMAN.  (The canonical address is the corrected one
\* in title case, and the classifier ignores case.)
C17_ThreeValued ==
    \A r \in DOMAIN runs :
        Assessed(r) =>
            LET address == runs[r].quality.canonical_address
            IN  /\ LoggedBase(CaseOf(r)) =
                       IF WordEndingIn(address, <<"s","t","r">>) THEN 60
                       ELSE IF \E suf \in complete_street_patterns : WordEndingIn(address, suf)
                            THEN 90
                       ELSE 75
                /\ Strip(runs[r].new_address_raw) = <<>> => LoggedBase(CaseOf(r)) = 75
                /\ (runs[r].new_address_raw = AddrMusterstr /\ case_resolutions = <<>>) =>
                       /\ runs[r].quality.confidence = 60
                       /\ cases[CaseOf(r)].status = "WAITING_FOR_HUMAN"

\* C17, amended: as C17, where the word ending in "str" or in a full suffix
\* has at least one more character before that ending.
C17_ThreeValuedLongerWord ==
    \A r \in DOMAIN runs :
        Assessed(r) =>
            LET address == runs[r].quality.canonical_address
            IN  /\ LoggedBase(CaseOf(r)) =
                       IF LongerWordEndingIn(address, <<"s","t","r">>) THEN 60
                       ELSE IF \E suf \in complete_street_patterns :
                                   LongerWordEndingIn(address, suf)
                            THEN 90
                       ELSE 75
                /\ Strip(runs[r].new_address_raw) = <<>> => LoggedBase(CaseOf(r)) = 75
                /\ (runs[r].new_address_raw = AddrMusterstr /\ case_resolutions = <<>>) =>
                       /\ runs[r].quality.confidence = 60
                       /\ cases[CaseOf(r)].status = "WAITING_FOR_HUMAN"

\* the blank address classified as unclear: 0.75, a human is asked
C17_BlankIsUnclear ==
    \E r \in DOMAIN runs :
        /\ Assessed(r)
        /\ runs[r].new_address_raw = AddrBlank
        /\ LoggedBase(CaseOf(r)) = 75
        /\ runs[r].quality.confidence = 75
        /\ runs[r].quality.canonical_address = <<>>
        /\ cases[CaseOf(r)].status = "WAITING_FOR_HUMAN"

\* tok is a short uppercase token: one to three characters, all uppercase
\* letters, and not itself a street suffix
IsShortUppercase(tok) ==
    /\ Len(tok) \in 1..3
    /\ \A i \in DOMAIN tok : IsUpperChar(tok[i])
    /\ Lower(tok) \notin complete_street_patterns \cup {<<"s","t","r">>}

\* C18 as stated: when the raw address has a short uppercase token that is
\* no street suffix, assess_quality returns a confidence of at most 0.60 and
\* needs_hitl = true.
C18_ShortUppercaseAsksHuman ==
    \A r \in DOMAIN runs :
        (/\ Assessed(r)
         /\ \E i \in DOMAIN tokenize_address(runs[r].new_address_raw) :
                IsShortUppercase(tokenize_address(runs[r].new_address_raw)[i]))
        => /\ runs[r].quality.confidence <= 60
           /\ runs[r].quality.needs_hitl

\* C19 as stated: when the raw address has a word ending in a full street
\* suffix and no memory correction was applied, assess_quality returns
\* confidence 0.90 and needs_hitl = false, and the status is QUALITY_OK.
C19_FullSuffixIsOk ==
    \A r \in DOMAIN runs :
        (/\ Assessed(r)
         /\ \E suf \in complete_street_patterns : WordEndingIn(runs[r].new_address_raw, suf)
         /\ ~Logged(CaseOf(r), "Memory applied corrections"))
        => /\ runs[r].quality.confidence = 90
           /\ ~runs[r].quality.needs_hitl
           /\ cases[CaseOf(r)].status = "QUALITY_OK"

\* C19, amended: the same when the word with the full suffix has at least
\* one more character before the suffix and the address has no word of
\* four or more characters ending in bare "str".
C19_FullSuffixNoBareStrIsOk ==
    \A r \in DOMAIN runs :
        (/\ Assessed(r)
         /\ \E suf \in complete_street_patterns :
                LongerWordEndingIn(runs[r].new_address_raw, suf)
         /\ ~LongerWordEndingIn(runs[r].new_address_raw, <<"s","t","r">>)
         /\ ~Logged(CaseOf(r), "Memory applied corrections"))
        => /\ runs[r].quality.confidence = 90
           /\ ~runs[r].quality.needs_hitl
           /\ runs[r].quality.hitl_task_id = NoTask
           /\ cases[CaseOf(r)].status = "QUALITY_OK"
           /\ LastEntry(CaseOf(r)) = Entry("Address quality OK.", "0.9", <<>>)

\* the corrected address of scenario B passes untouched by a memory that
\* holds patterns for other words
C19_MusterstrasseUntouched ==
    \E r \in DOMAIN runs :
        /\ Assessed(r)
        /\ runs[r].new_address_raw = AddrMusterstrasse
        /\ case_resolutions # <<>>
        /\ ~Logged(CaseOf(r), "Memory applied corrections")
        /\ runs[r].quality.confidence = 90
        /\ cases[CaseOf(r)].status = "QUALITY_OK"

\* C20: the confidence assess_quality returns is min(0.85, base + 0.10) when
\* a memory correction was applied and the classifier's confidence is below
\* 0.90, and the classifier's confidence otherwise; it lies in [0, 1], and
\* a boosted confidence is at most 0.85.
C20_BoostFormula ==
    \A r \in DOMAIN runs :
        Assessed(r) =>
            LET base == LoggedBase(CaseOf(r))
                fired == Logged(CaseOf(r), "Memory applied corrections")
                boosted == Logged(CaseOf(r), "Memory boost applied")
                confidence == runs[r].quality.confidence
            IN  /\ boosted <=> (fired /\ base < 90)
                /\ confidence =
                       IF fired /\ base < 90
                       THEN (IF base + 10 > 85 THEN 85 ELSE base + 10)
                       ELSE base
                /\ confidence \in 0..100
                /\ boosted => confidence <= 85

\* "Musterstr 12a, 67264 KL" with KL -> Kaiserslautern in the memory:
\* incomplete street, 0.60 + 0.10, still below the threshold
C20_BoostedButBelowThreshold ==
    \E r \in DOMAIN runs :
        /\ Assessed(r)
        /\ runs[r].new_address_raw = AddrMusterstr
        /\ Logged(CaseOf(r), "Memory applied corrections")
        /\ Logged(CaseOf(r), "Memory boost applied")
        /\ LoggedBase(CaseOf(r)) = 60
        /\ runs[r].quality.confidence = 70
        /\ cases[CaseOf(r)].status = "WAITING_FOR_HUMAN"

\* ------------------------------------------------------------------------
\* check_business_rules on its own: a run that has reached the Business
\* Rules step, for the move-in dates and addresses of the sets below
\* ------------------------------------------------------------------------

\* a move_in_date_raw given by what datetime.fromisoformat makes of it:
\* whether it parses, whether the result carries a UTC offset, and its
\* distance from datetime.utcnow() in half days.  "move_date - now" raises
\* TypeError for a datetime with an offset (now is naive), and .days of a
\* timedelta is the floor of the difference in days.
MoveInDateAt(parses, aware, half_days) ==
    [iso |-> parses /\ ~aware,
     delta_days |-> IF parses /\ ~aware THEN half_days \div 2 ELSE 0,
     parses |-> parses, aware |-> aware, half_days |-> half_days]

\* -366, -365.5, -365, -0.5, 0, 9.5 (a date 10 days ahead, seen at noon), 30,
\* 30.5 (a date 31 days ahead, seen at noon), 31 and 399.5 (a date 400 days
\* ahead, seen at noon) days from now
RuleHalfDays == {-732, -731, -730, -1, 0, 19, 60, 61, 62, 799}

RuleDates ==
    { MoveInDateAt(TRUE, FALSE, h) : h \in RuleHalfDays }
    \cup { MoveInDateAt(FALSE, FALSE, 0), MoveInDateAt(TRUE, TRUE, 19) }

\* "Musterstra<U+00DF>e 12A, 67663 Kaiserslautern", the same without its
\* comma, and "Musterstra<U+00DF>e, Kaiserslautern"
CanonFull == Title(AddrMusterstrasse)

CanonNoComma == SubSeq(CanonFull, 1, 16) \o SubSeq(CanonFull, 18, Len(CanonFull))

CanonNoDigit == SubSeq(CanonFull, 1, 12) \o <<",", " ">> \o TokKaiserslautern

RuleAddresses == {CanonFull, CanonNoComma, CanonNoDigit}

\* a run whose Quality step returned canonical address supplied with
\* confidence 0.90; the case row holds the canonical address stored, which
\* is the same, or the one an administrator's resolution has written since,
\* and the status is QUALITY_OK, or WAITING_FOR_HUMAN written since by
\* another run
InitRules ==
    /\ \E move_in_date_raw \in RuleDates, stored \in RuleAddresses,
          status \in {"QUALITY_OK", "WAITING_FOR_HUMAN"} :
           cases = <<[CaseRow(status, NameMax, AddrMusterstrasse, move_in_date_raw)
                         EXCEPT !.registry_exists = "TRUE",
                                !.canonical_address = stored]>>
    /\ \E supplied \in RuleAddresses :
           runs = <<[Run("approve", 1, AddrMusterstrasse, "rules_gate")
                        EXCEPT !.quality = [NoResult EXCEPT
                                               !.tool = "assess_quality",
                                               !.canonical_address = supplied,
                                               !.confidence = ConfComplete]]>>
    /\ audit_logs = << <<Entry("Case processing started (using existing case).", "", <<>>),
                         Entry("Identity verification run.", "True", <<>>),
                         Entry("Complete street name", "0.9", <<>>),
                         Entry("Address quality OK.", "0.9", <<>>)>> >>
    /\ case_resolutions = <<>>
    /\ response = Response("approve_case", 1, 200)

NextRules ==
    \/ \E r \in DOMAIN runs : check_business_rules_gate(r)
    \/ \E r \in DOMAIN runs, documents_ok \in BOOLEAN : check_business_rules(r, documents_ok)

SpecRules == InitRules /\ [][NextRules]_vars

\* the run has done the rules of its Business Rules step
RulesChecked(r) ==
    /\ At(r, "registry_gate")
    /\ runs[r].rules.tool = "check_business_rules"
    /\ runs[r].rules.status # "paused"

\* C21 as stated: the move-in date rule gives "ok" exactly when the date
\* parses as an ISO date and lies within [-365, +30] days of now; otherwise
\* it gives "suspicious" (out of range) or "invalid_format" (not parsed) and
\* needs_hitl = true.
C21_MoveInDateWindow ==
    \A r \in DOMAIN runs :
        RulesChecked(r) =>
            LET d == cases[CaseOf(r)].move_in_date_raw
                in_range == -365 * 2 <= d.half_days /\ d.half_days <= 30 * 2
                outcome == runs[r].rules.rule_results.move_in_date
            IN  /\ outcome = IF ~d.parses THEN "invalid_format"
                             ELSE IF in_range THEN "ok" ELSE "suspicious"
                /\ outcome # "ok" => runs[r].rules.needs_hitl

\* C21, amended: the rule gives "ok" exactly when the date parses as an ISO
\* date without a UTC offset and the difference to now, rounded down to
\* whole days, lies in [-365, +30] (the date is at most 365 days back and
\* less than 31 days ahead); it gives "suspicious" for such a date out of
\* that range and "invalid_format" for a date that does not parse or carries
\* an offset; every outcome but "ok" sets needs_hitl = true and the status
\* WAITING_FOR_HUMAN.
C21_MoveInDateWholeDays ==
    \A r \in DOMAIN runs :
        RulesChecked(r) =>
            LET d == cases[CaseOf(r)].move_in_date_raw
                in_range == -365 * 2 <= d.half_days /\ d.half_days < 31 * 2
                outcome == runs[r].rules.rule_results.move_in_date
            IN  /\ outcome = IF ~d.parses \/ d.aware THEN "invalid_format"
                             ELSE IF in_range THEN "ok" ELSE "suspicious"
                /\ outcome # "ok" =>
                       /\ runs[r].rules.needs_hitl
                       /\ runs[r].rules.status = "failed"
                       /\ cases[CaseOf(r)].status = "WAITING_FOR_HUMAN"

\* a date 400 days ahead found suspicious
C21_FarFutureSuspicious ==
    \E r \in DOMAIN runs :
        /\ RulesChecked(r)
        /\ cases[CaseOf(r)].move_in_date_raw = MoveInDateAt(TRUE, FALSE, 799)
        /\ runs[r].rules.rule_results.move_in_date = "suspicious"
        /\ runs[r].rules.rule_results.address_format_compliance = "passed"
        /\ runs[r].rules.rule_results.documents = "ok"
        /\ runs[r].rules.needs_hitl
        /\ cases[CaseOf(r)].status = "WAITING_FOR_HUMAN"

\* C22 as stated: the address-format rule gives "passed" exactly when the
\* canonical address supplied to the step (the one the run's Quality step
\* returned) has a comma and a digit, and "failed" with needs_hitl = true
\* otherwise.
C22_FormatOfSuppliedAddress ==
    \A r \in DOMAIN runs :
        RulesChecked(r) =>
            LET supplied == runs[r].quality.canonical_address
                outcome == runs[r].rules.rule_results.address_format_compliance
            IN  /\ outcome = IF Contains(supplied, <<",">>) /\ HasDigit(supplied)
                             THEN "passed" ELSE "failed"
                /\ outcome = "failed" => runs[r].rules.needs_hitl

MaxEntries == 3

AuditMessages == {"Identity verification run.", "HITL required."}

\* an entry as the table holds it: the database stamps the row on insert
EntryAt(message, timestamp) ==
    [message |-> message, detail |-> "", data |-> <<>>, timestamp |-> timestamp]

\* all rows of the table, and the latest timestamp handed out
AllEntries == UNION { Range(audit_logs[c]) : c \in DOMAIN audit_logs }

Clock ==
    IF AllEntries = {} THEN 0
    ELSE CHOOSE t \in { e.timestamp : e \in AllEntries } :
             \A e \in AllEntries : e.timestamp <= t

RECURSIVE CountEntries(_, _)
CountEntries(logs, c) ==
    IF c > Len(logs) THEN 0 ELSE Len(logs[c]) + CountEntries(logs, c + 1)

\* two cases submitted with incomplete fields: PENDING_REVIEW, nothing
\* written to the audit log yet
InitAudit ==
    /\ cases = <<CaseRow("PENDING_REVIEW", NameMax, AddrMusterstr, MoveInDate(TRUE, 10)),
                 CaseRow("PENDING_REVIEW", NameMax, AddrHauptweg, MoveInDate(TRUE, 10))>>
    /\ audit_logs = << <<>>, <<>> >>
    /\ case_resolutions = <<>>
    /\ runs = <<>>
    /\ response = Response("submit_case", 2, 200)

\* add_audit_entry: one INSERT; the timestamp is the database's clock, which
\* has not moved or has moved on since the last insert
audit_insert(case_id, message) ==
    /\ CountEntries(audit_logs, 1) < MaxEntries
    /\ \E timestamp \in {Clock, Clock + 1} :
           audit_logs' = add_audit_entry(audit_logs, case_id, EntryAt(message, timestamp))
    /\ UNCHANGED <<cases, case_resolutions, runs, response>>

\* SELECT ... WHERE case_id = %s ORDER BY timestamp ASC: every order of the
\* case's rows that ascends in the timestamp (rows that tie come in any order)
get_audit_entries(case_id) ==
    LET log == audit_logs[case_id]
    IN  { [i \in DOMAIN log |-> log[ord[i]]] :
            ord \in { p \in [DOMAIN log -> DOMAIN log] :
                        /\ \A i, j \in DOMAIN log : i # j => p[i] # p[j]
                        /\ \A i, j \in DOMAIN log :
                               i < j => log[p[i]].timestamp <= log[p[j]].timestamp } }

\* the tool get_audit_log called on its own: the rows as "timestamp -
\* message" lines, or the single "No case found" line when there is no row
get_audit_log_tool(case_id) ==
    /\ \E rows \in get_audit_entries(case_id) :
           response' = [op |-> "get_audit_log", case_id |-> case_id,
                        entries |-> IF rows # <<>>
                                    THEN [i \in DOMAIN rows |->
                                             [timestamp |-> rows[i].timestamp,
                                              message |-> rows[i].message]]
                                    ELSE <<[timestamp |-> Clock,
                                            message |-> "No case found"]>>]
    /\ UNCHANGED <<cases, audit_logs, case_resolutions, runs>>

NextAudit ==
    \/ \E case_id \in DOMAIN cases, message \in AuditMessages : audit_insert(case_id, message)
    \/ \E case_id \in DOMAIN cases : get_audit_log_tool(case_id)

SpecAudit == InitAudit /\ [][NextAudit]_vars

\* C24: every operation leaves each case's log as a prefix of the log after
\* it, an insert adds one entry to the log of one case and nothing to the
\* others, and get_audit_log answers with the case's entries, each once, in
\* ascending timestamp order.
C24_AuditAppendOnly ==
    [][/\ \A c \in DOMAIN audit_logs :
              /\ c \in DOMAIN audit_logs'
              /\ Len(audit_logs'[c]) >= Len(audit_logs[c])
              /\ SubSeq(audit_logs'[c], 1, Len(audit_logs[c])) = audit_logs[c]
       /\ audit_logs' # audit_logs =>
              \E c \in DOMAIN audit_logs :
                  /\ Len(audit_logs'[c]) = Len(audit_logs[c]) + 1
                  /\ \A d \in DOMAIN audit_logs : d # c => audit_logs'[d] = audit_logs[d]
       /\ (response' # response /\ response'.op = "get_audit_log") =>
              LET entries == response'.entries
                  log == audit_logs[response'.case_id]
              IN  /\ \A i, j \in DOMAIN entries :
                         i < j => entries[i].timestamp <= entries[j].timestamp
                  /\ log # <<>> =>
                         /\ Len(entries) = Len(log)
                         /\ \A k \in DOMAIN log :
                                Cardinality({ i \in DOMAIN entries :
                                                /\ entries[i].timestamp = log[k].timestamp
                                                /\ entries[i].message = log[k].message })
                                = Cardinality({ m \in DOMAIN log :
                                                  /\ log[m].timestamp = log[k].timestamp
                                                  /\ log[m].message = log[k].message })]_vars

\* the log of case 1 read back after three inserts, two of them with the
\* same timestamp
C24_ReadBackThree ==
    /\ response.op = "get_audit_log"
    /\ response.case_id = 1
    /\ Len(response.entries) = 3
    /\ Len(audit_logs[1]) = 3
    /\ audit_logs[1][1].timestamp = audit_logs[1][2].timestamp
    /\ audit_logs[1][3].timestamp > audit_logs[1][2].timestamp
    /\ response.entries[1].message # audit_logs[1][1].message

\* the entries a step has added to the log of the case
Added(case_id) ==
    SubSeq(audit_logs'[case_id], Len(audit_logs[case_id]) + 1, Len(audit_logs'[case_id]))

\* the step of run r returns: its position moves on, other than from a
\* pause check into the body of the same tool
Returned(r) ==
    /\ Stepped(r)
    /\ runs[r].pc \in {"ingest", "verify", "quality", "rules_gate", "rules",
                       "registry_gate", "registry", "certificate_gate", "certificate"}
    /\ runs'[r].pc \notin {"rules", "registry", "certificate"}

BranchMessages ==
    {"Incomplete street detected", "Complete street name", "Street format unclear"}

\* C25: every pipeline tool that returns (ingest, verify identity, quality,
\* business rules, registry update, certificate; acting or skipping) has
\* appended at least one entry to the log of its case; assess_quality has
\* appended exactly one entry naming the classifier branch and, exactly when
\* a learned pattern matches the address it was given, an entry listing the
\* corrections, as its first.
C25_EveryStepAudited ==
    [][\A r \in DOMAIN runs :
          Returned(r) =>
              LET added == Added(CaseOf(r))
              IN  /\ Len(audit_logs'[CaseOf(r)]) > Len(audit_logs[CaseOf(r)])
                  /\ SubSeq(audit_logs'[CaseOf(r)], 1, Len(audit_logs[CaseOf(r)]))
                         = audit_logs[CaseOf(r)]
                  /\ runs[r].pc = "quality" =>
                         LET fired == \E i \in DOMAIN case_resolutions :
                                          BoundedSearch(Strip(runs[r].new_address_raw),
                                                        case_resolutions[i].original_pattern)
                         IN  /\ Cardinality({ i \in DOMAIN added :
                                                added[i].message \in BranchMessages }) = 1
                             /\ fired <=> /\ added[1].message = "Memory applied corrections"
                                          /\ added[1].data # <<>>
                             /\ \A i \in DOMAIN added :
                                    added[i].message = "Memory applied corrections" => i = 1]_vars

\* a Quality step that applied a learned correction and logged it, then
\* the branch taken
C25_CorrectionsLogged ==
    \E r \in DOMAIN runs :
        /\ Assessed(r)
        /\ Len(audit_logs[CaseOf(r)]) >= 3
        /\ \E i \in DOMAIN audit_logs[CaseOf(r)] :
               /\ i + 2 <= Len(audit_logs[CaseOf(r)])
               /\ i + 3 >= Len(audit_logs[CaseOf(r)])
               /\ audit_logs[CaseOf(r)][i].message = "Memory applied corrections"
               /\ audit_logs[CaseOf(r)][i].data # <<>>
               /\ audit_logs[CaseOf(r)][i + 1].message \in BranchMessages

\* the rows of the table that a step has inserted or updated
Stored ==
    { case_resolutions'[i] : i \in { k \in DOMAIN case_resolutions' :
          k \notin DOMAIN case_resolutions \/ case_resolutions'[k] # case_resolutions[k] } }

\* C26 as stated: every pattern a human correction stores has an original
\* that differs from its corrected value ignoring case, is not numeric-only
\* and has more than one character; and the correction of "Musterstr 12a,
\* 67264 KL" to "Musterstra<U+00DF>e 12a, 67663 Kaiserslautern" on an empty
\* memory stores exactly Musterstr -> Musterstra<U+00DF>e as
\* street_abbreviation and KL -> Kaiserslautern as city_abbreviation.
C26_LearnedPatterns ==
    [][\A case_id \in DOMAIN cases :
          (/\ response' = Response("resolve_hitl", case_id, 200)
           /\ cases[case_id].status = "WAITING_FOR_HUMAN"
           /\ cases'[case_id].status = "QUALITY_OK")
          => /\ \A row \in Stored :
                    /\ Lower(row.original_pattern) # Lower(row.corrected_value)
                    /\ ~IsDigitStr(row.original_pattern)
                    /\ Len(row.original_pattern) >= 2
             /\ (/\ case_resolutions = <<>>
                 /\ cases[case_id].new_address_raw = AddrMusterstr
                 /\ cases'[case_id].canonical_address = AddrMusterstrasse)
                => case_resolutions' =
                       <<PatternRow(SubSeq(AddrMusterstr, 1, 9), SubSeq(AddrMusterstrasse, 1, 12),
                                    "street_abbreviation", 1),
                         PatternRow(TokKL, TokKaiserslautern, "city_abbreviation", 1)>>]_vars

(***************************************************************************)
(* Learning from one correction, with the original tokens taken in any     *)
(* order (api.py 1487-1547)                                                *)
(***************************************************************************)

\* the original addresses of the corrections
LearnAddresses == {AddrMusterstr, AddrAmMarkt, AddrHauptweg}

\* the orders in which n tokens can stand
Orders(n) == { f \in [1..n -> 1..n] : \A i, j \in 1..n : f[i] = f[j] => i = j }

\* the tokens taken in the given order
InOrder(tokens, order) == [i \in 1..Len(tokens) |-> tokens[order[i]]]

\* the (original, corrected, type) triples of a pattern table
Triples(table) ==
    { <<table[i].original_pattern, table[i].corrected_value, table[i].resolution_type>> :
          i \in DOMAIN table }

InitLearning ==
    /\ \E new_address_raw \in LearnAddresses :
           cases = <<CaseRow("WAITING_FOR_HUMAN", NameMax, new_address_raw, MoveInDate(TRUE, 10))>>
    /\ runs = <<>>
    /\ audit_logs = << <<>> >>
    /\ case_resolutions = <<>>
    /\ response = Response("submit_case", 1, 200)

\* the learning loop of resolve_hitl over the tokens of the case's address,
\* the outer loop visiting them in the given order
learn_patterns(case_id, corrected_address, order) ==
    LET original_tokens == InOrder(tokenize_address(cases[case_id].new_address_raw), order)
        corrected_tokens == tokenize_address(corrected_address)
    IN  /\ response.op # "learn_patterns"
        /\ case_resolutions' = StoreAll(case_resolutions,
                                        LearnLoop(original_tokens, corrected_tokens, 1, {}))
        /\ response' = [op |-> "learn_patterns", case_id |-> case_id,
                        corrected_address |-> corrected_address, order |-> order]
        /\ UNCHANGED <<cases, audit_logs, runs>>

NextLearning ==
    \E case_id \in DOMAIN cases, corrected_address \in CorrectedAddresses :
        \E order \in Orders(Len(tokenize_address(cases[case_id].new_address_raw))) :
            learn_patterns(case_id, corrected_address, order)

SpecLearning == InitLearning /\ [][NextLearning]_vars

\* C27 as stated: the set of patterns stored for an original and a corrected
\* address is the one the loop stores when it takes the original tokens in
\* their written order, whatever the order in which it takes them.
C27_OrderIndependent ==
    response.op = "learn_patterns"
    => Triples(case_resolutions)
         = Triples(StoreAll(<<>>, patterns_learned(cases[response.case_id].new_address_raw,
                                                   response.corrected_address)))

\* run r writes UPDATED in this step (update_registry) / CLOSED
\* (generate_certificate)
WritesUpdated(r) == At(r, "registry") /\ runs'[r].registry.status = "success"

WritesClosed(r) == At(r, "certificate") /\ runs'[r].certificate.status = "CLOSED"

\* the business rules passed in run r
RulesPassedIn(r) ==
    /\ runs[r].rules.tool = "check_business_rules"
    /\ runs[r].rules.status = "passed"
    /\ ~runs[r].rules.needs_hitl

\* C28: with one trigger at a time per case, a run writes UPDATED only when
\* its registry step read RULES_PASSED and CLOSED only when its certificate
\* step read UPDATED, the case still having that status, and in both cases
\* the business rules have passed in that run.
C28_WritesFollowRules ==
    [][\A r \in DOMAIN runs :
          /\ WritesUpdated(r)
                => /\ runs[r].seen_status = "RULES_PASSED"
                   /\ cases[CaseOf(r)].status = "RULES_PASSED"
                   /\ cases'[CaseOf(r)].status = "UPDATED"
                   /\ RulesPassedIn(r)
          /\ WritesClosed(r)
                => /\ runs[r].seen_status = "UPDATED"
                   /\ cases[CaseOf(r)].status = "UPDATED"
                   /\ cases'[CaseOf(r)].status = "CLOSED"
                   /\ RulesPassedIn(r)]_vars

\* a run that passed the rules has closed its case
C28_ClosedAfterRules ==
    \E r \in DOMAIN runs :
        /\ At(r, "audit_log")
        /\ runs[r].certificate.status = "CLOSED"
        /\ runs[r].registry.status = "success"
        /\ RulesPassedIn(r)
        /\ cases[CaseOf(r)].status = "CLOSED"

\* the statuses a case may be left in by its runs
SettledStatuses == {"WAITING_FOR_HUMAN", "CLOSED", "ERROR"}

\* every run started on the case has ended
AllRunsEnded(case_id) == RunsOn(case_id) # {} /\ ActiveOn(case_id) = {}

\* run r has ended: its thread has returned or has run its except block
RunEnded(r) == r \in DOMAIN runs /\ runs[r].pc \in {"done", "error"}

\* C29: every started run ends (its thread returns or runs its except
\* block), and whenever all runs of a case have ended the case is in
\* WAITING_FOR_HUMAN, CLOSED or ERROR.
C29_RunsEndSettled ==
    /\ \A r \in 1..MaxRuns : (r \in DOMAIN runs) ~> RunEnded(r)
    /\ [](\A case_id \in DOMAIN cases :
              AllRunsEnded(case_id) => cases[case_id].status \in SettledStatuses)

\* a case was parked for the human by one run and closed by a later one,
\* and all runs have returned
C29_ResumedAndClosed ==
    \E case_id \in DOMAIN cases :
        /\ AllRunsEnded(case_id)
        /\ \E r \in RunsOn(case_id) : runs[r].kind = "resume" /\ runs[r].pc = "done"
        /\ cases[case_id].status = "CLOSED"

\* Duplicate triggers as in NextRace, and any step of a run may raise: the
\* Quality step of one run then meets every status another run of the case
\* can have written, ERROR included.
NextRerun ==
    \/ Submit
    \/ \E case_id \in DOMAIN cases : DuplicateAllowed(case_id) /\ approve_case(case_id)
    \/ \E r \in DOMAIN runs : Scheduled(r) /\ PipelineStep(r)
    \/ \E r \in DOMAIN runs : Scheduled(r) /\ workflow_error(r)

SpecRerun == Init /\ [][NextRerun]_vars

\* C30: assess_quality can run whatever the status of the case is, and when
\* it runs the status becomes WAITING_FOR_HUMAN if the confidence it returns
\* is below the threshold and QUALITY_OK otherwise, and the canonical
\* address becomes the title-cased address it scored (the raw address of
\* the run after the learned corrections), whatever the status was.
C30_QualityOverwrites ==
    /\ [](\A r \in DOMAIN runs : At(r, "quality") => ENABLED assess_quality(r))
    /\ [][\A r \in DOMAIN runs :
             (At(r, "quality") /\ Stepped(r))
             => /\ cases'[CaseOf(r)].status =
                       IF runs'[r].quality.confidence < HitlThreshold
                       THEN "WAITING_FOR_HUMAN" ELSE "QUALITY_OK"
                /\ cases'[CaseOf(r)].canonical_address = runs'[r].quality.canonical_address
                /\ \E applied \in apply_learned_corrections(case_resolutions,
                                                            Strip(runs[r].new_address_raw)) :
                       /\ runs'[r].quality.confidence =
                              BoostedConfidence(BaseConfidence(applied[1]), applied[2])
                       /\ runs'[r].quality.canonical_address = Title(applied[1])]_vars

\* both runs of a case had started, the Business Rules of one set
\* WAITING_FOR_HUMAN, and the next write of the status is the Quality step of
\* the other setting QUALITY_OK; no correction was ever made
C30_LeftWaitingByQuality ==
    \E case_id \in DOMAIN cases :
        LET log == audit_logs[case_id]
        IN  \E i \in DOMAIN log :
                /\ i < Len(log)
                /\ log[i].message = "HITL required for business rules."
                /\ Cardinality({ k \in 1..i :
                       log[k].message = "Case processing started (using existing case)." }) = 2
                /\ \A k \in (i + 1)..(Len(log) - 1) : log[k].message \notin StatusEntries
                /\ log[Len(log)].message = "Address quality OK."
                /\ \A k \in DOMAIN log : log[k].message # "HITL resolved: Admin corrected address"
                /\ cases[case_id].status = "QUALITY_OK"

====
